---------------------------- MODULE Spec2Model ----------------------------
(***************************************************************************)
(* Verification model of the ConsVision development-vulnerability scripts. *)
(*                                                                         *)
(*   Spec      MakeUrbanCores (procCensus.py) from the seed selection to   *)
(*             out_Cores, run twice, on a strip of rectangular blocks one  *)
(*             of which holds an enclave block.                            *)
(*   SpecGrow  the region-growing loop of MakeUrbanCores (procCensus.py)   *)
(*             or that of MakeUrbanCores2 (Arc10_3/procCensus.py), on      *)
(*             arbitrary blocks and an arbitrary adjacency relation.       *)
(*   SpecCat   CategorizeCores (procCensus.py) on one core.                *)
(*   SpecDownload  BatchDownload (Arc10_3/proc3DEP.py).                    *)
(*   SpecExtract   BatchExtractZips (Arc10_3/proc3DEP.py).                 *)
(*                                                                         *)
(* Lengths are in metres, areas in square metres.  SHP_IDX is held in      *)
(* thousandths and IMPERV20_MEAN in hundredths, so that the thresholds     *)
(* 0.185 and 0.33 of the where-clauses are the integers 185 and 33.        *)
(***************************************************************************)
EXTENDS Integers, Sequences, FiniteSets, TLC

(***************************************************************************)
(* Bounds of the model.                                                    *)
(***************************************************************************)
\* number of census blocks in the region-growing specification
NUnits == 3
\* number of rectangular blocks in the strip of the pipeline specification
NCells == 4
\* height of the strip, metres
StripH == 6000
\* the strip block that holds the enclave block
EnclaveHost == 2
\* side of the square enclave block, metres
EnclaveSide == 50
\* longest table of file names given to BatchDownload
MaxFiles == 3
\* largest number of entries of the directory given to BatchExtractZips
MaxDirEntries == 3
\* most executions of the expansion loop body in a run of main
MaxPasses == 1

\* number of locations of the strip polyFlatten works on
NLocs == 3
\* most polygons of inPolys
MaxPolys == 2
\* most rasters of exclList
MaxExcl == 2
\* greatest value of a cell of a raster of exclList
MaxCellValue == 2
\* most calls of finalizeModel in a behaviour
MaxRuns == 2
\* greatest value of a cell of the model raster
HighValue == 102
\* greatest maximum of the difference raster, greatest cutoff
MaxDiff == 3
MaxCutoff == 3
\* most files of the directory given to BatchStripName
MaxStripFiles == 2
\* greatest nCells, annDist and rounding given to MakeWeightKernel
MaxRadius == 3
MaxAnnDist == 3
MaxDecimals == 1

(***************************************************************************)
(* Constants of the program.                                               *)
(***************************************************************************)
\* "DENS_PPSM >= 1000" of the seed where-clause
SeedDensMin == 1000
\* "Shape_Area >= 3600" of the seed where-clause (four 30-m pixels)
SeedAreaMin == 3600
\* "DENS_PPSM >= 500" of the expansion where-clause
ExpDensMin == 500
\* "IMPERV_MEAN >= 20"
ExpImpervMin == 20
\* "SHP_IDX >= 0.185", in thousandths
ExpShpIdxMin == 185
\* "IMPERV20_MEAN >= 0.33", in hundredths
ExpImperv20Min == 33
\* "1 SquareMiles" of EliminatePolygonPart, in square metres (2,589,988.11)
SqMileM2 == 2589988
\* "0.25 Miles" of Buffer_analysis, in millimetres (402.336 m)
BufferDistMM == 402336

\* imperviousness is a percentage (devChgImp, parameter develmin)
MaxImperv == 100
\* upper limit of the second range of the remap, in tenths (100.1)
RangeTop == 1001
\* the cell value that stands for NoData
NoData == -1

VARIABLES
    \* ---- MakeUrbanCores (procCensus.py) ----
    blocks,        \* the features of in_Blocks (their ids)
    attr,          \* attr[b]: the fields of block b
    touch,         \* pairs of distinct blocks within 0 metres of each other
    pc,            \* position in MakeUrbanCores
    coreBlocks,    \* scratch feature class coreBlocks (the seed blocks)
    selSecondary,  \* the selection of layer lyr_SecondaryBlocks
    c0, c1,        \* the two counters of the expansion loop
    passes,        \* history: executions of the loop body so far
    lastAdded,     \* history: blocks the latest selection step added
    expandCores,   \* scratch feature class expandCores
    geom,          \* geom[i]: width of strip block i (<<>> without geometry)
    dissCores,     \* parts of the one multipart feature of dissCores
    fillCores,     \* parts of fillCores, each the set of blocks it covers
    grpCores,      \* features of grpCores: extent in mm and CORE_ID
    tmpBlocks,     \* rows of tmpBlocks
    out_Cores,     \* rows of out_Cores
    run,           \* 1 in the first run of the script, 2 in the re-run
    firstCores,    \* history: the rows of out_Cores after run 1
    \* ---- MakeUrbanCores2 (Arc10_3/procCensus.py); it writes the scratch
    \*      feature classes coreBlocks and expandCores as well ----
    pc2,           \* position in MakeUrbanCores2
    selTertiary,   \* the selection of layer lyr_TertiaryBlocks
    c,             \* the counter of its expansion loop
    \* ---- CategorizeCores (procCensus.py) ----
    in_Cores,      \* the row of in_Cores: POP, AREA_SQMI, CORE_TYPE
    catPc,         \* position in CategorizeCores
    \* ---- BatchDownload (Arc10_3/proc3DEP.py) ----
    in_tab,        \* the basenames in the rows of in_tab
    dlPc,          \* position in BatchDownload
    fileList,      \* the list fileList
    fileIdx,       \* index in fileList of the next fileName of the loop
    procList,      \* the list procList
    Log,           \* lines written to README.txt
    LogOpen,       \* whether the file object Log is open
    outcomes,      \* history: what the server did for each file so far
    opened,        \* history: the files urlopen was called for, in order
    retrieved,     \* history: indices of the files urlretrieve was called for
    \* ---- BatchExtractZips (Arc10_3/proc3DEP.py) ----
    ZipDir,        \* the entries of ZipDir in listing order: name, content
    zipPc,         \* position in BatchExtractZips
    zfiles,        \* the list zfiles
    zipIdx,        \* index in zfiles of the next zfile of the loop
    log,           \* lines written to ZipLog.txt
    logOpen,       \* whether the file object log is open
    visited,       \* history: the zfiles the loop body ran for, in order
    listed,        \* history: whether os.listdir returned
    OutDir         \* names of the archives extracted into OutDir

growVars == <<blocks, attr, touch, pc, coreBlocks, selSecondary, c0, c1,
              passes, lastAdded, expandCores>>

postVars == <<geom, dissCores, fillCores, grpCores, tmpBlocks, out_Cores,
              run, firstCores>>

grow2Vars == <<pc2, selTertiary, c>>

catVars == <<in_Cores, catPc>>

dlVars == <<in_tab, dlPc, fileList, fileIdx, procList, Log, LogOpen,
            outcomes, opened, retrieved>>

zipVars == <<ZipDir, zipPc, zfiles, zipIdx, log, logOpen, visited, listed,
             OutDir>>

(***************************************************************************)
(* State of the scripts added later.  Each has its own variables, a tuple  *)
(* of them, and a predicate that says the script is not running.           *)
(***************************************************************************)
VARIABLES
    \* ---- main and PrepBlocks (procCensus.py), at the level of the
    \*      toolkit calls they make ----
    mainPc,        \* the function being executed, or how the run ended
    callsLeft,     \* source lines of the toolkit calls it has still to make
    mainTrace,     \* history: the calls made, each with its outcome
    in_Year,       \* the parameter in_Year
    tabFields,     \* names of the fields of in_PopTab
    blockFields,   \* names of the fields of in_Blocks
    coresWritten,  \* whether out_Cores has been written
    coresCategorized, \* whether CORE_TYPE of out_Cores has been calculated
    prepRuns,      \* 1 in the first run of PrepBlocks, 2 in the second
    prepBefore     \* the fields of the inputs when this run of PrepBlocks began

mainVars == <<mainPc, callsLeft, mainTrace, in_Year, tabFields, blockFields,
              coresWritten, coresCategorized, prepRuns, prepBefore>>

IdleMain ==
    /\ mainPc = "idle"
    /\ callsLeft = <<>>
    /\ mainTrace = <<>>
    /\ in_Year = 0
    /\ tabFields = {}
    /\ blockFields = {}
    /\ coresWritten = FALSE
    /\ coresCategorized = FALSE
    /\ prepRuns = 1
    /\ prepBefore = <<>>

VARIABLES
    \* ---- polyFlatten (procConsLands.py) ----
    inPolys,       \* the input polygons: field value and locations covered
    values,        \* the parameter values
    valPos,        \* position in values of the next val of the loop
    inFeats,       \* the features of the feature class inFeats names
    outPolys,      \* the feature class outPolys: whether written, features
    flatPc         \* position in polyFlatten

flatVars == <<inPolys, values, valPos, inFeats, outPolys, flatPc>>

IdleFlatten ==
    /\ inPolys = {}
    /\ values = <<>>
    /\ valPos = 1
    /\ inFeats = {}
    /\ outPolys = [written |-> FALSE, feats |-> {}]
    /\ flatPc = "idle"

VARIABLES
    \* ---- DEM2FGDB (Arc10_3/proc3DEP.py) ----
    rasterList,    \* the names ListRasters returned, in its order
    dirRasters,    \* names of the GRID rasters (directories) in in_dir
    dirFiles,      \* names of the plain files in in_dir
    dirAtStart,    \* the plain files in in_dir when DEM2FGDB was called
    gdbRasters,    \* names of the rasters in out_gdb
    myProcList,    \* the processing records
    demLog,        \* the lines written to ProcLog.txt
    demPos,        \* position in rasterList of the next gname
    demPc          \* position in DEM2FGDB

demVars == <<rasterList, dirRasters, dirFiles, dirAtStart, gdbRasters,
             myProcList, demLog, demPos, demPc>>

IdleDEM ==
    /\ rasterList = <<>>
    /\ dirRasters = {}
    /\ dirFiles = {}
    /\ dirAtStart = {}
    /\ gdbRasters = {}
    /\ myProcList = <<>>
    /\ demLog = <<>>
    /\ demPos = 1
    /\ demPc = "idle"

VARIABLES
    \* ---- devChgImp (procSamples.py), DevChg (Arc10_3/procNLCD.py) ----
    t1, t2,        \* value of the cell in the two impervious rasters
    develmin,      \* the parameter develmin
    keepChg,       \* the parameter keep_intermediate
    r1, r2,        \* value of the cell in the two development status rasters
    outChg,        \* value of the cell in the change raster out
    chgTemps,      \* the intermediate rasters that exist
    chgPc          \* position in devChgImp

chgVars == <<t1, t2, develmin, keepChg, r1, r2, outChg, chgTemps, chgPc>>

IdleChg ==
    /\ t1 = NoData
    /\ t2 = NoData
    /\ develmin = 1
    /\ keepChg = FALSE
    /\ r1 = NoData
    /\ r2 = NoData
    /\ outChg = NoData
    /\ chgTemps = {}
    /\ chgPc = "idle"

VARIABLES
    \* ---- makeSampMask (procSamples.py, Arc10_3/procSampleMask.py) ----
    exclList,      \* per raster of exclList: value of the cell, the query
    maskEnv,       \* the mask: "none", or the cell is "inside" or "outside"
    nmList,        \* value of the cell in the rasters tmpMsk0, tmpMsk1, ..
    outRast,       \* value of the cell in outRast
    sampPc         \* position in makeSampMask

sampVars == <<exclList, maskEnv, nmList, outRast, sampPc>>

IdleSamp ==
    /\ exclList = <<>>
    /\ maskEnv = "none"
    /\ nmList = <<>>
    /\ outRast = NoData
    /\ sampPc = "idle"

VARIABLES
    \* ---- finalizeModel (finalizeModelProducts.py) ----
    gdbProducts,   \* the rasters of out_gdb: name, first name, run that made it
    rinValues,     \* the values of the rows of the table of rin
    vat,           \* rows of the table of the final raster just saved
    updRun,        \* whether the parameter upd is given
    finRun,        \* number of calls of finalizeModel so far
    finPc          \* position in finalizeModel

finVars == <<gdbProducts, rinValues, vat, updRun, finRun, finPc>>

IdleFinal ==
    /\ gdbProducts = {}
    /\ rinValues = <<>>
    /\ vat = <<>>
    /\ updRun = FALSE
    /\ finRun = 0
    /\ finPc = "idle"

VARIABLES
    \* ---- ImpGrowthSpots (procNLCD.py) ----
    wsRasters,     \* names of the rasters in the workspace
    mx,            \* the maximum of the difference raster
    cutoff,        \* the parameter cutoff
    keep_intermediate,  \* the parameter keep_intermediate
    edist,         \* the parameter edist
    spotPc         \* position in ImpGrowthSpots

spotVars == <<wsRasters, mx, cutoff, keep_intermediate, edist, spotPc>>

IdleSpots ==
    /\ wsRasters = {}
    /\ mx = 0
    /\ cutoff = 1
    /\ keep_intermediate = FALSE
    /\ edist = FALSE
    /\ spotPc = "idle"

VARIABLES
    \* ---- BatchStripName (Arc10_3/proc3DEP.py) ----
    in_dir,        \* the parameter in_dir, a path
    pre, suf,      \* the parameters pre and suf
    fsFiles,       \* the paths of the files that exist
    fsDirs,        \* the paths of the directories that exist
    stripList,     \* what os.listdir(in_dir) returned
    stripPos,      \* position in stripList of the next fileName
    stripLog,      \* what the loop did with each fileName
    stripPc        \* position in BatchStripName

stripVars == <<in_dir, pre, suf, fsFiles, fsDirs, stripList, stripPos,
               stripLog, stripPc>>

IdleStrip ==
    /\ in_dir = <<>>
    /\ pre = <<>>
    /\ suf = <<>>
    /\ fsFiles = {}
    /\ fsDirs = {}
    /\ stripList = <<>>
    /\ stripPos = 1
    /\ stripLog = <<>>
    /\ stripPc = "idle"

VARIABLES
    \* ---- protMult, protMultBMI (procConsLands.py) ----
    protFn,        \* the function called: "protMult" or "protMultBMI"
    bmi, lps,      \* value of the cell in the rasters bmi and lps
    nlcd,          \* value of the cell in the raster nlcd
    wholeDivide,   \* whether / of integer rasters gives an integer raster
    withNlcd,      \* whether the call in progress is given nlcd
    tmp_water,     \* value of the cell in tmp_water
    tmp_mult,      \* value of the cell in tmp_mult, in thousandths
    multOut,       \* value of the cell in outRast, for each of the calls
    protPc         \* position in the function

protVars == <<protFn, bmi, lps, nlcd, wholeDivide, withNlcd, tmp_water,
              tmp_mult, multOut, protPc>>

IdleProt ==
    /\ protFn = "protMult"
    /\ bmi = NoData
    /\ lps = NoData
    /\ nlcd = NoData
    /\ wholeDivide = FALSE
    /\ withNlcd = FALSE
    /\ tmp_water = NoData
    /\ tmp_mult = NoData
    /\ multOut = [nlcd |-> NoData, plain |-> NoData]
    /\ protPc = "idle"

VARIABLES
    \* ---- MakeWeightKernel (procNLCD.py) ----
    nCells, gamma, scale, rounding, ysnInt, centerVal, annDist,
    weight,        \* the array weight, in thousandths
    normWt,        \* the array normWt, in units of 10^-rounding, or "nan"
    outfile,       \* the lines written to out_File, each a sequence of tokens
    kernPc         \* position in the function

kernVars == <<nCells, gamma, scale, rounding, ysnInt, centerVal, annDist,
              weight, normWt, outfile, kernPc>>

IdleKern ==
    /\ nCells = 0
    /\ gamma = 0
    /\ scale = 0
    /\ rounding = 0
    /\ ysnInt = 0
    /\ centerVal = 0
    /\ annDist = 0
    /\ weight = <<>>
    /\ normWt = <<>>
    /\ outfile = <<>>
    /\ kernPc = "idle"

\* ---- what the later scripts leave alone ----
laterVars == <<mainVars, flatVars, demVars, chgVars, sampVars, finVars,
               spotVars, stripVars, protVars, kernVars>>
oldVars == <<growVars, postVars, grow2Vars, catVars, dlVars, zipVars>>
notMain == <<oldVars, flatVars, demVars, chgVars, sampVars, finVars,
             spotVars, stripVars, protVars, kernVars>>
notFlatten == <<oldVars, mainVars, demVars, chgVars, sampVars, finVars,
                spotVars, stripVars, protVars, kernVars>>
notDEM == <<oldVars, mainVars, flatVars, chgVars, sampVars, finVars,
            spotVars, stripVars, protVars, kernVars>>
notChg == <<oldVars, mainVars, flatVars, demVars, sampVars, finVars,
            spotVars, stripVars, protVars, kernVars>>
notSamp == <<oldVars, mainVars, flatVars, demVars, chgVars, finVars,
             spotVars, stripVars, protVars, kernVars>>
notFinal == <<oldVars, mainVars, flatVars, demVars, chgVars, sampVars,
              spotVars, stripVars, protVars, kernVars>>
notSpots == <<oldVars, mainVars, flatVars, demVars, chgVars, sampVars,
              finVars, stripVars, protVars, kernVars>>
notStrip == <<oldVars, mainVars, flatVars, demVars, chgVars, sampVars,
              finVars, spotVars, protVars, kernVars>>
notProt == <<oldVars, mainVars, flatVars, demVars, chgVars, sampVars,
             finVars, spotVars, stripVars, kernVars>>
notKern == <<oldVars, mainVars, flatVars, demVars, chgVars, sampVars,
             finVars, spotVars, stripVars, protVars>>

\* what an action of one script leaves alone: the state of the other scripts
notCores == <<grow2Vars, catVars, dlVars, zipVars, laterVars>>
notCores2 == <<blocks, attr, touch, pc, selSecondary, c0, c1, postVars,
               catVars, dlVars, zipVars, laterVars>>
notCat == <<growVars, postVars, grow2Vars, dlVars, zipVars, laterVars>>
notDownload == <<growVars, postVars, grow2Vars, catVars, zipVars, laterVars>>
notExtract == <<growVars, postVars, grow2Vars, catVars, dlVars, laterVars>>

vars == <<oldVars, laterVars>>

\* the other scripts are not running
IdleCat ==
    /\ in_Cores = [POP |-> 0, AREA_SQMI |-> 0, CORE_TYPE |-> "null"]
    /\ catPc = "idle"

IdleDownload ==
    /\ in_tab = <<>>
    /\ dlPc = "idle"
    /\ fileList = <<>>
    /\ fileIdx = 1
    /\ procList = <<>>
    /\ Log = <<>>
    /\ LogOpen = FALSE
    /\ outcomes = <<>>
    /\ opened = <<>>
    /\ retrieved = {}

IdleExtract ==
    /\ ZipDir = <<>>
    /\ zipPc = "idle"
    /\ zfiles = <<>>
    /\ zipIdx = 1
    /\ log = <<>>
    /\ logOpen = FALSE
    /\ visited = <<>>
    /\ listed = FALSE
    /\ OutDir = {}

IdleCores ==
    /\ blocks = {}
    /\ attr = <<>>
    /\ touch = {}
    /\ pc = "idle"
    /\ coreBlocks = {}
    /\ selSecondary = {}
    /\ c0 = 0
    /\ c1 = 0
    /\ passes = 0
    /\ lastAdded = 0
    /\ expandCores = {}
    /\ geom = <<>>
    /\ dissCores = {}
    /\ fillCores = {}
    /\ grpCores = {}
    /\ tmpBlocks = {}
    /\ out_Cores = {}
    /\ run = 1
    /\ firstCores = {}
    /\ pc2 = "idle"
    /\ selTertiary = {}
    /\ c = 0

\* ---- the later scripts are not running ----
IdleLater ==
    /\ IdleMain
    /\ IdleFlatten
    /\ IdleDEM
    /\ IdleChg
    /\ IdleSamp
    /\ IdleFinal
    /\ IdleSpots
    /\ IdleStrip
    /\ IdleProt
    /\ IdleKern

IdleOld ==
    /\ IdleCores
    /\ IdleCat
    /\ IdleDownload
    /\ IdleExtract

IdleButMain ==
    /\ IdleOld
    /\ IdleFlatten
    /\ IdleDEM
    /\ IdleChg
    /\ IdleSamp
    /\ IdleFinal
    /\ IdleSpots
    /\ IdleStrip
    /\ IdleProt
    /\ IdleKern

IdleButFlatten ==
    /\ IdleOld
    /\ IdleMain
    /\ IdleDEM
    /\ IdleChg
    /\ IdleSamp
    /\ IdleFinal
    /\ IdleSpots
    /\ IdleStrip
    /\ IdleProt
    /\ IdleKern

IdleButDEM ==
    /\ IdleOld
    /\ IdleMain
    /\ IdleFlatten
    /\ IdleChg
    /\ IdleSamp
    /\ IdleFinal
    /\ IdleSpots
    /\ IdleStrip
    /\ IdleProt
    /\ IdleKern

IdleButChg ==
    /\ IdleOld
    /\ IdleMain
    /\ IdleFlatten
    /\ IdleDEM
    /\ IdleSamp
    /\ IdleFinal
    /\ IdleSpots
    /\ IdleStrip
    /\ IdleProt
    /\ IdleKern

IdleButSamp ==
    /\ IdleOld
    /\ IdleMain
    /\ IdleFlatten
    /\ IdleDEM
    /\ IdleChg
    /\ IdleFinal
    /\ IdleSpots
    /\ IdleStrip
    /\ IdleProt
    /\ IdleKern

IdleButFinal ==
    /\ IdleOld
    /\ IdleMain
    /\ IdleFlatten
    /\ IdleDEM
    /\ IdleChg
    /\ IdleSamp
    /\ IdleSpots
    /\ IdleStrip
    /\ IdleProt
    /\ IdleKern

IdleButSpots ==
    /\ IdleOld
    /\ IdleMain
    /\ IdleFlatten
    /\ IdleDEM
    /\ IdleChg
    /\ IdleSamp
    /\ IdleFinal
    /\ IdleStrip
    /\ IdleProt
    /\ IdleKern

IdleButStrip ==
    /\ IdleOld
    /\ IdleMain
    /\ IdleFlatten
    /\ IdleDEM
    /\ IdleChg
    /\ IdleSamp
    /\ IdleFinal
    /\ IdleSpots
    /\ IdleProt
    /\ IdleKern

IdleButProt ==
    /\ IdleOld
    /\ IdleMain
    /\ IdleFlatten
    /\ IdleDEM
    /\ IdleChg
    /\ IdleSamp
    /\ IdleFinal
    /\ IdleSpots
    /\ IdleStrip
    /\ IdleKern

IdleButKern ==
    /\ IdleOld
    /\ IdleMain
    /\ IdleFlatten
    /\ IdleDEM
    /\ IdleChg
    /\ IdleSamp
    /\ IdleFinal
    /\ IdleSpots
    /\ IdleStrip
    /\ IdleProt

(***************************************************************************)
(* where-clauses of MakeUrbanCores.                                        *)
(***************************************************************************)
\* where_clause = "DENS_PPSM >= 1000 AND Shape_Area >= 3600"
SeedClause(f) ==
    f.DENS_PPSM >= SeedDensMin /\ f.Shape_Area >= SeedAreaMin

\* where_clause = "(DENS_PPSM >= 500)
\*                 OR (IMPERV_MEAN >= 20 AND SHP_IDX >= 0.185)
\*                 OR (IMPERV20_MEAN >= 0.33 AND SHP_IDX >= 0.185)"
ExpansionClause(f) ==
    \/ f.DENS_PPSM >= ExpDensMin
    \/ (f.IMPERV_MEAN >= ExpImpervMin /\ f.SHP_IDX >= ExpShpIdxMin)
    \/ (f.IMPERV20_MEAN >= ExpImperv20Min /\ f.SHP_IDX >= ExpShpIdxMin)

\* MakeFeatureLayer(in_Blocks, 'lyr_PrimaryBlocks', where_clause)
lyr_PrimaryBlocks == {b \in blocks : SeedClause(attr[b])}

\* MakeFeatureLayer(in_Blocks, 'lyr_SecondaryBlocks', where_clause)
lyr_SecondaryBlocks == {b \in blocks : ExpansionClause(attr[b])}

\* 'WITHIN_A_DISTANCE', '0 METERS': the two features touch, overlap or coincide
WithinDistance0(a, b) == a = b \/ <<a, b>> \in touch

\* SelectLayerByLocation(layer, 'WITHIN_A_DISTANCE', selectFeatures,
\* '0 METERS'):
\* the features of the layer within 0 metres of some select feature
SelectByLocation(layer, selectFeatures) ==
    {b \in layer : \E s \in selectFeatures : WithinDistance0(b, s)}

\* a variant loop test that also continues when the counts are equal
LoopCondGe == c1 >= c0

\* the loop test "while c1 > c0"
LoopCond == c1 > c0

\* a variant selection that only ever looks around coreBlocks
ExpandSelectionFromCore ==
    selSecondary \cup SelectByLocation(lyr_SecondaryBlocks, coreBlocks)

\* the loop body's selection: neighbours of the current selection are added
ExpandSelection ==
    selSecondary \cup SelectByLocation(lyr_SecondaryBlocks, selSecondary)

UnorderedPairs(S) == {p \in S \X S : p[1] < p[2]}

Symmetric(E) == E \cup {<<p[2], p[1]>> : p \in E}

\* Append_management(inputs, target): the features are added to the target
AppendTo(target, inputs) == target \cup inputs

\* a variant in which the old contents of an output stay beside the new
OverwriteKeepsOld(existing, new) == existing \cup new

\* arcpy.env.overwriteOutput = True: an output that exists is replaced
Overwrite(existing, new) == new

(***************************************************************************)
(* The region grower: lines 160-202 of MakeUrbanCores.                     *)
(***************************************************************************)
\* lines 162-165: the seed blocks are copied to coreBlocks
SelectSeeds ==
    /\ pc = "start"
    /\ coreBlocks' = Overwrite(coreBlocks, lyr_PrimaryBlocks)
    /\ pc' = "select"
    /\ UNCHANGED <<blocks, attr, touch, selSecondary, c0, c1, passes,
                   lastAdded, expandCores, postVars, notCores>>

\* lines 187-193: the first selection, around coreBlocks, and the two counts
InitSelection ==
    /\ pc = "select"
    /\ LET sel == SelectByLocation(lyr_SecondaryBlocks, coreBlocks)
       IN  /\ selSecondary' = sel
           /\ c0' = Cardinality(coreBlocks)
           /\ c1' = Cardinality(sel)
           /\ lastAdded' = Cardinality(sel \ coreBlocks)
    /\ passes' = 0
    /\ pc' = "loop"
    /\ UNCHANGED <<blocks, attr, touch, coreBlocks, expandCores, postVars,
                   notCores>>

\* lines 195-200: one execution of the loop body
ExpandPass ==
    /\ pc = "loop"
    /\ LoopCond
    /\ LET sel == ExpandSelection
       IN  /\ c0' = Cardinality(selSecondary)
           /\ selSecondary' = sel
           /\ c1' = Cardinality(sel)
           /\ lastAdded' = Cardinality(sel \ selSecondary)
    /\ passes' = passes + 1
    /\ UNCHANGED <<blocks, attr, touch, pc, coreBlocks, expandCores, postVars,
                   notCores>>

\* lines 195, 201: the loop exits and the selection is copied to expandCores
CopyExpand ==
    /\ pc = "loop"
    /\ ~LoopCond
    /\ expandCores' = Overwrite(expandCores, selSecondary)
    /\ pc' = "grown"
    /\ UNCHANGED <<blocks, attr, touch, coreBlocks, selSecondary, c0, c1,
                   passes, lastAdded, postVars, notCores>>

(***************************************************************************)
(* Geometry of the pipeline specification.  The blocks 1..NCells are       *)
(* rectangles of height StripH laid side by side along the x axis, block i *)
(* of width geom[i]; block 0 is a square of side EnclaveSide in the middle *)
(* of block EnclaveHost, which has a hole there.  All blocks overlap in    *)
(* their y extent, so distances between groups of blocks are gaps in x.    *)
(***************************************************************************)
Cells == 1..NCells
Enclave == 0
StripUnits == {Enclave} \cup Cells
Widths == {300, 500}

RECURSIVE CellLo(_)
CellLo(i) == IF i = 1 THEN 0 ELSE CellLo(i - 1) + geom[i - 1]

Lo(b) == IF b = Enclave
         THEN CellLo(EnclaveHost) + (geom[EnclaveHost] - EnclaveSide) \div 2
         ELSE CellLo(b)

Hi(b) == IF b = Enclave THEN Lo(b) + EnclaveSide ELSE CellLo(b) + geom[b]

\* block e lies in a hole of block h
InsideOf(e, h) == e = Enclave /\ h = EnclaveHost

StripTouch ==
    Symmetric({<<i, i + 1>> : i \in 1..(NCells - 1)}
              \cup {<<Enclave, EnclaveHost>>})

\* the Shape_Area field
ShapeArea(w, b) ==
    IF b = Enclave THEN EnclaveSide * EnclaveSide
    ELSE w[b] * StripH
         - (IF b = EnclaveHost THEN EnclaveSide * EnclaveSide ELSE 0)

\* the sum of f[x] over the x in S
RECURSIVE SetSum(_, _)
SetSum(S, f) ==
    IF S = {} THEN 0
    ELSE LET x == CHOOSE y \in S : TRUE IN f[x] + SetSum(S \ {x}, f)

Min(S) == CHOOSE x \in S : \A y \in S : x <= y
Max(S) == CHOOSE x \in S : \A y \in S : x >= y

(***************************************************************************)
(* The geoprocessing tools of lines 206-243, on this geometry.             *)
(***************************************************************************)
RECURSIVE ConnectedTo(_, _)
ConnectedTo(S, within) ==
    LET T == S \cup {b \in within : \E s \in S : <<b, s>> \in touch}
    IN  IF T = S THEN S ELSE ConnectedTo(T, within)

\* Dissolve_management(expandCores, dissCores, "", "", "MULTI_PART"): one
\* feature, whose parts are the maximal sets of blocks joined edge to edge
DissolveParts(feats) == {ConnectedTo({b}, feats) : b \in feats}

\* the blocks in the holes of part P of the dissolved feature
HoleBlocks(P) == {e \in blocks \ P : \E h \in P : InsideOf(e, h)}

PartArea(P) == SetSum(P, [b \in P |-> attr[b].Shape_Area])
HoleArea(P) ==
    SetSum(HoleBlocks(P), [b \in HoleBlocks(P) |-> attr[b].Shape_Area])

\* EliminatePolygonPart_management(dissCores, fillCores, "AREA",
\* "1 SquareMiles", "", "ANY"): parts smaller than the area are dropped, holes
\* smaller than the area are filled.  A part is given here by the blocks it
\* covers.  (No part of this geometry is within a hole's area of the limit,
\* so measuring a part with or without its hole gives the same result.)
EliminatePolygonPart(parts) ==
    {P \cup (IF HoleArea(P) < SqMileM2 THEN HoleBlocks(P) ELSE {}) :
        P \in {Q \in parts : ~(PartArea(Q) < SqMileM2)}}

\* x extent of a part, in millimetres
PartLoMM(P) == 1000 * Min({Lo(b) : b \in P})
PartHiMM(P) == 1000 * Max({Hi(b) : b \in P})

\* Buffer_analysis(fillCores, buffCores, "0.25 Miles", "", "", "ALL"): every
\* part grown by the distance; what overlaps is merged
BufferExtents(parts) ==
    {[lo |-> PartLoMM(P) - BufferDistMM, hi |-> PartHiMM(P) + BufferDistMM] :
        P \in parts}

\* a variant in which overlapping buffers stay separate features
SinglepartNoMerge(E) == E

\* MultipartToSinglepart_management(buffCores, grpCores): the maximal
\* connected pieces of the buffer: stretches [a, b] that the buffered parts
\* cover without a break and that no buffered part extends
SinglepartExtents(E) ==
    {iv \in [lo : {e.lo : e \in E}, hi : {e.hi : e \in E}] :
        /\ iv.lo <= iv.hi
        /\ ~\E e \in E : e.lo < iv.lo /\ iv.lo <= e.hi
        /\ ~\E e \in E : e.lo <= iv.hi /\ iv.hi < e.hi
        /\ \A d \in E : (iv.lo <= d.hi /\ d.hi < iv.hi)
               => \E e \in E : e.lo <= d.hi /\ d.hi < e.hi}

\* CalculateField(grpCores, "CORE_ID", "!OBJECTID!"): the features are
\* numbered 1..n; which feature gets which OBJECTID is the tool's choice
Numberings(E) ==
    {f \in [E -> 1..Cardinality(E)] : \A x, y \in E : f[x] = f[y] => x = y}

\* a variant that selects the blocks touching the filled geometry
SelectIntersecting(parts) ==
    {b \in blocks : \E P \in parts : \E x \in P : WithinDistance0(b, x)}

\* a variant that selects only the blocks of expandCores in the parts
SelectFromExpandCores(parts) ==
    {b \in expandCores : \E P \in parts : b \in P}

\* SelectLayerByLocation('lyr_coreBlocks', 'WITHIN', fillCores): the blocks
\* of in_Blocks that lie within the filled geometry
SelectWithin(parts) == {b \in blocks : \E P \in parts : b \in P}

\* match option "WITHIN": block b lies within feature g of grpCores
WithinFeature(b, g) == g.lo <= 1000 * Lo(b) /\ 1000 * Hi(b) <= g.hi

\* SpatialJoin_analysis(target, grpCores, tmpBlocks, "JOIN_ONE_TO_ONE",
\* "KEEP_COMMON", "", "WITHIN"): one row for every target block that has a
\* matching join feature, with the fields of the first match
SpatialJoin(target, joinFeatures) ==
    {[blk |-> b,
      CORE_ID |-> Min({g.CORE_ID :
                          g \in {h \in joinFeatures : WithinFeature(b, h)}}),
      POP |-> attr[b].POP,
      AREA_SQMI |-> attr[b].AREA_SQMI] :
        b \in {t \in target : \E g \in joinFeatures : WithinFeature(t, g)}}

\* Dissolve_management(tmpBlocks, out_Cores, "CORE_ID", "POP SUM;AREA_SQMI
\* SUM", "MULTI_PART") and the two AlterField calls
DissolveByCoreId(rows) ==
    {[CORE_ID |-> id,
      blks |-> {r.blk : r \in {q \in rows : q.CORE_ID = id}},
      POP |-> SetSum({q \in rows : q.CORE_ID = id}, [q \in rows |-> q.POP]),
      AREA_SQMI |-> SetSum({q \in rows : q.CORE_ID = id},
                           [q \in rows |-> q.AREA_SQMI])] :
        id \in {r.CORE_ID : r \in rows}}

(***************************************************************************)
(* The rest of MakeUrbanCores: lines 206-247.                              *)
(***************************************************************************)
\* lines 206-209
DissolveCores ==
    /\ pc = "grown"
    /\ dissCores' = Overwrite(dissCores, DissolveParts(expandCores))
    /\ pc' = "dissolved"
    /\ UNCHANGED <<blocks, attr, touch, coreBlocks, selSecondary, c0, c1,
                   passes, lastAdded, expandCores, geom, fillCores, grpCores,
                   tmpBlocks, out_Cores, run, firstCores, notCores>>

\* lines 211-214
EliminateGaps ==
    /\ pc = "dissolved"
    /\ fillCores' = Overwrite(fillCores, EliminatePolygonPart(dissCores))
    /\ pc' = "filled"
    /\ UNCHANGED <<blocks, attr, touch, coreBlocks, selSecondary, c0, c1,
                   passes, lastAdded, expandCores, geom, dissCores, grpCores,
                   tmpBlocks, out_Cores, run, firstCores, notCores>>

\* lines 219-230: buffer, split into single parts, number them
GroupCores ==
    /\ pc = "filled"
    /\ LET E == SinglepartExtents(BufferExtents(fillCores))
       IN  \E oid \in Numberings(E) :
              grpCores' = Overwrite(grpCores,
                  {[lo |-> e.lo, hi |-> e.hi, CORE_ID |-> oid[e]] : e \in E})
    /\ pc' = "grouped"
    /\ UNCHANGED <<blocks, attr, touch, coreBlocks, selSecondary, c0, c1,
                   passes, lastAdded, expandCores, geom, dissCores, fillCores,
                   tmpBlocks, out_Cores, run, firstCores, notCores>>

\* lines 232-237: the blocks within fillCores are joined to grpCores
AttachCoreId ==
    /\ pc = "grouped"
    /\ tmpBlocks' = Overwrite(tmpBlocks,
                              SpatialJoin(SelectWithin(fillCores), grpCores))
    /\ pc' = "joined"
    /\ UNCHANGED <<blocks, attr, touch, coreBlocks, selSecondary, c0, c1,
                   passes, lastAdded, expandCores, geom, dissCores, fillCores,
                   grpCores, out_Cores, run, firstCores, notCores>>

\* lines 239-247
Summarize ==
    /\ pc = "joined"
    /\ out_Cores' = Overwrite(out_Cores, DissolveByCoreId(tmpBlocks))
    /\ pc' = "done"
    /\ UNCHANGED <<blocks, attr, touch, coreBlocks, selSecondary, c0, c1,
                   passes, lastAdded, expandCores, geom, dissCores, fillCores,
                   grpCores, tmpBlocks, run, firstCores, notCores>>

\* the script is run again on the same in_Blocks; the scratch geodatabase
\* and out_Cores still hold what the first run wrote
Rerun ==
    /\ pc = "done"
    /\ run = 1
    /\ run' = 2
    /\ firstCores' = out_Cores
    /\ pc' = "start"
    /\ UNCHANGED <<blocks, attr, touch, coreBlocks, selSecondary, c0, c1,
                   passes, lastAdded, expandCores, geom, dissCores, fillCores,
                   grpCores, tmpBlocks, out_Cores, notCores>>

(***************************************************************************)
(* Spec: MakeUrbanCores on every strip whose widths are drawn from Widths  *)
(* and whose blocks' fields are drawn from StripProfiles.  Shape_Area and  *)
(* AREA_SQMI (in thousandths of a square mile) follow from the geometry.   *)
(***************************************************************************)
StripProfiles ==
    { [DENS_PPSM |-> 1000, IMPERV_MEAN |-> 0, SHP_IDX |-> 0,
       IMPERV20_MEAN |-> 0, POP |-> 100],
      [DENS_PPSM |-> 499, IMPERV_MEAN |-> 20, SHP_IDX |-> 185,
       IMPERV20_MEAN |-> 0, POP |-> 10],
      [DENS_PPSM |-> 499, IMPERV_MEAN |-> 19, SHP_IDX |-> 185,
       IMPERV20_MEAN |-> 32, POP |-> 1] }

BlockFields(prof, w, b) ==
    [DENS_PPSM |-> prof.DENS_PPSM, IMPERV_MEAN |-> prof.IMPERV_MEAN,
     SHP_IDX |-> prof.SHP_IDX, IMPERV20_MEAN |-> prof.IMPERV20_MEAN,
     POP |-> prof.POP, Shape_Area |-> ShapeArea(w, b),
     AREA_SQMI |-> ShapeArea(w, b) \div 2590]

Init ==
    /\ blocks = StripUnits
    /\ geom \in [Cells -> Widths]
    /\ \E prof \in [StripUnits -> StripProfiles] :
          attr = [b \in StripUnits |-> BlockFields(prof[b], geom, b)]
    /\ touch = StripTouch
    /\ pc = "start"
    /\ pc2 = "idle"
    /\ selTertiary = {}
    /\ c = 0
    /\ coreBlocks = {}
    /\ selSecondary = {}
    /\ c0 = 0
    /\ c1 = 0
    /\ passes = 0
    /\ lastAdded = 0
    /\ expandCores = {}
    /\ dissCores = {}
    /\ fillCores = {}
    /\ grpCores = {}
    /\ tmpBlocks = {}
    /\ out_Cores = {}
    /\ run = 1
    /\ firstCores = {}
    /\ IdleCat
    /\ IdleDownload
    /\ IdleExtract
    /\ IdleLater

Next ==
    \/ SelectSeeds
    \/ InitSelection
    \/ ExpandPass
    \/ CopyExpand
    \/ DissolveCores
    \/ EliminateGaps
    \/ GroupCores
    \/ AttachCoreId
    \/ Summarize
    \/ Rerun

Spec == Init /\ [][Next]_vars /\ WF_vars(Next)

(***************************************************************************)
(* The region grower of MakeUrbanCores2: lines 238-269 of                  *)
(* Arc10_3/procCensus.py.  (coreTracts, made in lines 222-235, is not read *)
(* afterwards.)                                                            *)
(***************************************************************************)
\* where_clause = "POP <> 0"
lyr_PrimaryBlocks2 == {b \in blocks : attr[b].POP # 0}

\* where_clause = "DENS_PPSM >= 1000"
lyr_SecondaryBlocks2 == {b \in blocks : attr[b].DENS_PPSM >= SeedDensMin}

\* the expansion where-clause, the same as in MakeUrbanCores
lyr_TertiaryBlocks == {b \in blocks : ExpansionClause(attr[b])}

\* 'WITHIN_A_DISTANCE' ... 'NEW_SELECTION', then 'ARE_IDENTICAL_TO' ...
\* 'REMOVE_FROM_SELECTION': the features of the layer next to the select
\* features that are not among them
SelectNewNeighbours(layer, selectFeatures) ==
    SelectByLocation(layer, selectFeatures) \ selectFeatures

\* a variant loop test that stops when one block is left to add
LoopCond2More == c > 1

\* the loop test "while c > 0"
LoopCond2 == c > 0

\* lines 238-242: the populated blocks are copied to coreBlocks
SelectPopulated ==
    /\ pc2 = "start"
    /\ coreBlocks' = Overwrite(coreBlocks, lyr_PrimaryBlocks2)
    /\ pc2' = "adjacent"
    /\ UNCHANGED <<selTertiary, c, passes, lastAdded, expandCores, notCores2>>

\* lines 244-251: adjacent high-density blocks are appended to coreBlocks
AppendAdjacent ==
    /\ pc2 = "adjacent"
    /\ LET sel == SelectNewNeighbours(lyr_SecondaryBlocks2, coreBlocks)
       IN  coreBlocks' = IF Cardinality(sel) > 0
                         THEN AppendTo(coreBlocks, sel)
                         ELSE coreBlocks
    /\ pc2' = "select"
    /\ UNCHANGED <<selTertiary, c, passes, lastAdded, expandCores, notCores2>>

\* lines 256-261: coreBlocks is copied to expandCores; the first selection
InitTertiary ==
    /\ pc2 = "select"
    /\ expandCores' = Overwrite(expandCores, coreBlocks)
    /\ LET sel == SelectNewNeighbours(lyr_TertiaryBlocks, coreBlocks)
       IN  /\ selTertiary' = sel
           /\ c' = Cardinality(sel)
           /\ lastAdded' = Cardinality(sel \ coreBlocks)
    /\ passes' = 0
    /\ pc2' = "loop"
    /\ UNCHANGED <<coreBlocks, notCores2>>

\* lines 262-267: one execution of the loop body
ExpandPass2 ==
    /\ pc2 = "loop"
    /\ LoopCond2
    /\ LET grown == AppendTo(expandCores, selTertiary)
           sel == SelectNewNeighbours(lyr_TertiaryBlocks, grown)
       IN  /\ expandCores' = grown
           /\ selTertiary' = sel
           /\ c' = Cardinality(sel)
           /\ lastAdded' = Cardinality(sel \ grown)
    /\ passes' = passes + 1
    /\ UNCHANGED <<pc2, coreBlocks, notCores2>>

\* lines 262, 268: the loop exits
FinishExpand2 ==
    /\ pc2 = "loop"
    /\ ~LoopCond2
    /\ pc2' = "grown"
    /\ UNCHANGED <<selTertiary, c, passes, lastAdded, coreBlocks,
                   expandCores, notCores2>>

(***************************************************************************)
(* SpecGrow: the grower of one of the two versions of the script, on every *)
(* set of NUnits blocks whose fields are drawn from GrowProfiles, with     *)
(* every symmetric adjacency relation.                                     *)
(***************************************************************************)
GrowUnits == 1..NUnits

\* field values on both sides of each threshold of the two where-clauses
\* (a block without population has density 0)
GrowProfiles ==
    { [DENS_PPSM |-> 1000, Shape_Area |-> 3600, IMPERV_MEAN |-> 0,
       SHP_IDX |-> 0, IMPERV20_MEAN |-> 0, POP |-> 4],
      [DENS_PPSM |-> 1000, Shape_Area |-> 3599, IMPERV_MEAN |-> 0,
       SHP_IDX |-> 0, IMPERV20_MEAN |-> 0, POP |-> 4],
      [DENS_PPSM |-> 499, Shape_Area |-> 3600, IMPERV_MEAN |-> 20,
       SHP_IDX |-> 185, IMPERV20_MEAN |-> 0, POP |-> 2],
      [DENS_PPSM |-> 0, Shape_Area |-> 3600, IMPERV_MEAN |-> 19,
       SHP_IDX |-> 185, IMPERV20_MEAN |-> 33, POP |-> 0],
      [DENS_PPSM |-> 499, Shape_Area |-> 3600, IMPERV_MEAN |-> 20,
       SHP_IDX |-> 184, IMPERV20_MEAN |-> 33, POP |-> 2],
      [DENS_PPSM |-> 0, Shape_Area |-> 3600, IMPERV_MEAN |-> 19,
       SHP_IDX |-> 185, IMPERV20_MEAN |-> 32, POP |-> 0] }

InitGrow ==
    /\ blocks = GrowUnits
    /\ attr \in [GrowUnits -> GrowProfiles]
    /\ \E E \in SUBSET UnorderedPairs(GrowUnits) : touch = Symmetric(E)
    /\ \/ pc = "start" /\ pc2 = "idle"
       \/ pc = "idle" /\ pc2 = "start"
    /\ selTertiary = {}
    /\ c = 0
    /\ coreBlocks = {}
    /\ selSecondary = {}
    /\ c0 = 0
    /\ c1 = 0
    /\ passes = 0
    /\ lastAdded = 0
    /\ expandCores = {}
    /\ geom = <<>>
    /\ dissCores = {}
    /\ fillCores = {}
    /\ grpCores = {}
    /\ tmpBlocks = {}
    /\ out_Cores = {}
    /\ run = 1
    /\ firstCores = {}
    /\ IdleCat
    /\ IdleDownload
    /\ IdleExtract
    /\ IdleLater

NextGrow ==
    \/ SelectSeeds
    \/ InitSelection
    \/ ExpandPass
    \/ CopyExpand
    \/ SelectPopulated
    \/ AppendAdjacent
    \/ InitTertiary
    \/ ExpandPass2
    \/ FinishExpand2

\* the script runs to completion: a step that can be taken is taken
SpecGrow == InitGrow /\ [][NextGrow]_vars /\ WF_vars(NextGrow)

(***************************************************************************)
(* CategorizeCores: lines 250-273 of procCensus.py.  AREA_SQMI is held in  *)
(* thousandths of a square mile, so "area >=1" reads area >= 1000.         *)
(***************************************************************************)
\* a variant code block whose first test is pop <= 2500
catCoresLe(pop, area) ==
    IF pop <= 2500
    THEN IF pop >= 1000 /\ area >= 1000 THEN 1 ELSE 0
    ELSE IF pop < 25000 THEN 2
    ELSE IF pop < 250000 THEN 3
    ELSE IF pop < 2500000 THEN 4
    ELSE 5

\* the code block of CalculateField
catCores(pop, area) ==
    IF pop < 2500
    THEN IF pop >= 1000 /\ area >= 1000 THEN 1 ELSE 0
    ELSE IF pop < 25000 THEN 2
    ELSE IF pop < 250000 THEN 3
    ELSE IF pop < 2500000 THEN 4
    ELSE 5

\* AddField(in_Cores, "CORE_TYPE") and CalculateField with
\* expression "catCores(!POP!, !AREA_SQMI!)"
CategorizeCores ==
    /\ catPc = "start"
    /\ in_Cores' = [in_Cores EXCEPT
                      !.CORE_TYPE = catCores(in_Cores.POP, in_Cores.AREA_SQMI)]
    /\ catPc' = "done"
    /\ UNCHANGED notCat

\* populations and areas on both sides of every threshold of catCores
CatPops ==
    {0, 999, 1000, 1001, 2499, 2500, 2501, 24999, 25000, 25001,
     249999, 250000, 250001, 2499999, 2500000, 2500001}
CatAreas == {0, 999, 1000, 1001, 5000}

InitCat ==
    /\ \E p \in CatPops, a \in CatAreas :
          in_Cores = [POP |-> p, AREA_SQMI |-> a, CORE_TYPE |-> "null"]
    /\ catPc = "start"
    /\ IdleCores
    /\ IdleDownload
    /\ IdleExtract
    /\ IdleLater

NextCat == CategorizeCores

SpecCat == InitCat /\ [][NextCat]_vars /\ WF_vars(NextCat)

(***************************************************************************)
(* BatchDownload: lines 39-100 of Arc10_3/proc3DEP.py.                     *)
(***************************************************************************)
BaseNames == {"n37w080", "n38w081"}
Prefix == "USGS_NED_13_"
Suffix == "_ArcGrid.zip"

\* fname = pre + row[0] + suf
FileName(base) == <<Prefix, base, Suffix>>

\* what can happen to one file: the server answers 404, the file is
\* retrieved, urlopen raises, urlretrieve raises
Outcomes == {"404", "ok", "openFails", "retrieveFails"}

\* the line the loop body appends to procList
ResultLine(fileName, outcome) ==
    [msg |-> CASE outcome = "404" -> "File does not exist"
               [] outcome = "ok" -> "Successfully downloaded"
               [] OTHER -> "Failed to download",
     file |-> fileName]

\* a variant in which a failed download ends the loop
NextFileAbort(i, outcome) ==
    IF outcome \in {"openFails", "retrieveFails"}
    THEN Len(fileList) + 1 ELSE i + 1

\* the try/except is inside the loop: whatever happened, the loop goes on
\* with the next file
NextFile(i, outcome) == i + 1

\* lines 52-64: the log is opened and the table is read into fileList
ReadTable ==
    /\ dlPc = "start"
    /\ LogOpen' = TRUE
    /\ Log' = <<[msg |-> "Process logging started", file |-> <<>>]>>
    /\ fileList' = [i \in DOMAIN in_tab |-> FileName(in_tab[i])]
    /\ fileIdx' = 1
    /\ procList' = <<>>
    /\ dlPc' = "loop"
    /\ UNCHANGED <<in_tab, outcomes, opened, retrieved, notDownload>>

\* lines 52-68: the cursor raises at some row; the script quits
ReadTableFails ==
    /\ dlPc = "start"
    /\ LogOpen' = TRUE
    /\ \E n \in 0..Len(in_tab) :
          fileList' = [i \in 1..n |-> FileName(in_tab[i])]
    /\ Log' = <<[msg |-> "Process logging started", file |-> <<>>],
                [msg |-> "Unable to parse input table.  Exiting...",
                 file |-> <<>>]>>
    /\ dlPc' = "quit"
    /\ UNCHANGED <<in_tab, fileIdx, procList, outcomes, opened, retrieved,
                   notDownload>>

\* lines 72-90: one execution of the loop body
DownloadFile ==
    /\ dlPc = "loop"
    /\ fileIdx <= Len(fileList)
    /\ \E o \in Outcomes :
          /\ outcomes' = Append(outcomes, o)
          /\ opened' = Append(opened, fileList[fileIdx])
          /\ retrieved' = IF o \in {"ok", "retrieveFails"}
                          THEN retrieved \cup {fileIdx} ELSE retrieved
          /\ procList' = Append(procList, ResultLine(fileList[fileIdx], o))
          /\ fileIdx' = NextFile(fileIdx, o)
    /\ UNCHANGED <<in_tab, dlPc, fileList, Log, LogOpen, notDownload>>

\* lines 93-100: procList is written to the log, the log is closed
WriteLog ==
    /\ dlPc = "loop"
    /\ fileIdx > Len(fileList)
    /\ Log' = Log \o procList
                  \o <<[msg |-> "Process logging ended", file |-> <<>>]>>
    /\ LogOpen' = FALSE
    /\ dlPc' = "done"
    /\ UNCHANGED <<in_tab, fileList, fileIdx, procList, outcomes, opened,
                   retrieved, notDownload>>

InitDownload ==
    /\ in_tab \in UNION {[1..n -> BaseNames] : n \in 0..MaxFiles}
    /\ dlPc = "start"
    /\ fileList = <<>>
    /\ fileIdx = 1
    /\ procList = <<>>
    /\ Log = <<>>
    /\ LogOpen = FALSE
    /\ outcomes = <<>>
    /\ opened = <<>>
    /\ retrieved = {}
    /\ IdleCores
    /\ IdleCat
    /\ IdleExtract
    /\ IdleLater

NextDownload ==
    \/ ReadTable
    \/ ReadTableFails
    \/ DownloadFile
    \/ WriteLog

SpecDownload == InitDownload /\ [][NextDownload]_vars /\ WF_vars(NextDownload)

(***************************************************************************)
(* BatchExtractZips: lines 121-176 of Arc10_3/proc3DEP.py.  A file name is *)
(* the sequence of its pieces, <<stem, extension, ...>>.                    *)
(***************************************************************************)
Stems == <<"n36w078", "n37w079", "n37w080", "n38w080", "n38w081">>
Extensions == {<<".zip">>, <<".zip", ".bak">>, <<".txt">>}
\* a zip archive, a zip archive whose extraction raises, something else
Contents == {"zip", "badzip", "data"}

\* '.zip' in f
HasZip(name) == \E k \in DOMAIN name : name[k] = ".zip"

\* zfiles = [f for f in flist if '.zip' in f]
RECURSIVE ZipFilter(_)
ZipFilter(flist) ==
    IF flist = <<>> THEN <<>>
    ELSE IF HasZip(Head(flist).name)
         THEN <<Head(flist)>> \o ZipFilter(Tail(flist))
         ELSE ZipFilter(Tail(flist))

\* zipfile.is_zipfile
IsZipfile(f) == f.content \in {"zip", "badzip"}

\* the line the loop body writes to the log for zfile f
ZipLogLine(f) ==
    IF IsZipfile(f)
    THEN IF f.content = "zip"
         THEN [msg |-> "extracted", file |-> f.name]
         ELSE [msg |-> "Warning: Failed to extract", file |-> f.name]
    ELSE [msg |-> "Warning: not a valid zip file", file |-> f.name]

\* a variant in which a failed extraction ends the loop
NextZipAbort(i, f) == IF f.content = "zip" THEN i + 1 ELSE Len(zfiles) + 1

\* the inner try/except and the else branch: the loop goes on with the next
\* zfile whatever happened to this one
NextZip(i, f) == i + 1

\* lines 128-133: OutDir is made, the log is opened
OpenZipLog ==
    /\ zipPc = "start"
    /\ logOpen' = TRUE
    /\ zipPc' = "list"
    /\ UNCHANGED <<ZipDir, zfiles, zipIdx, log, visited, listed, OutDir,
                   notExtract>>

\* lines 136-137: the directory is listed and filtered
ListZips ==
    /\ zipPc = "list"
    /\ zfiles' = ZipFilter(ZipDir)
    /\ zipIdx' = 1
    /\ listed' = TRUE
    /\ zipPc' = "loop"
    /\ UNCHANGED <<ZipDir, log, logOpen, visited, OutDir, notExtract>>

\* line 136 raises; lines 164-176: the except clause, then finally
ListZipsFails ==
    /\ zipPc = "list"
    /\ logOpen' = FALSE
    /\ zipPc' = "done"
    /\ UNCHANGED <<ZipDir, zfiles, zipIdx, log, visited, listed, OutDir,
                   notExtract>>

\* lines 138-161: one execution of the loop body
ExtractZip ==
    /\ zipPc = "loop"
    /\ zipIdx <= Len(zfiles)
    /\ LET f == zfiles[zipIdx]
       IN  /\ visited' = Append(visited, f.name)
           /\ OutDir' = IF IsZipfile(f) /\ f.content = "zip"
                        THEN OutDir \cup {f.name} ELSE OutDir
           /\ log' = Append(log, ZipLogLine(f))
           /\ zipIdx' = NextZip(zipIdx, f)
    /\ UNCHANGED <<ZipDir, zipPc, zfiles, logOpen, listed, notExtract>>

\* lines 162, 175-176: the loop is over; finally closes the log
CloseZipLog ==
    /\ zipPc = "loop"
    /\ zipIdx > Len(zfiles)
    /\ logOpen' = FALSE
    /\ zipPc' = "done"
    /\ UNCHANGED <<ZipDir, zfiles, zipIdx, log, visited, listed, OutDir,
                   notExtract>>

InitExtract ==
    /\ \E n \in 0..MaxDirEntries :
          \E ext \in [1..n -> Extensions], con \in [1..n -> Contents] :
              ZipDir = [i \in 1..n |->
                          [name |-> <<Stems[i]>> \o ext[i],
                           content |-> con[i]]]
    /\ zipPc = "start"
    /\ zfiles = <<>>
    /\ zipIdx = 1
    /\ log = <<>>
    /\ logOpen = FALSE
    /\ visited = <<>>
    /\ listed = FALSE
    /\ OutDir = {}
    /\ IdleCores
    /\ IdleCat
    /\ IdleDownload
    /\ IdleLater

NextExtract ==
    \/ OpenZipLog
    \/ ListZips
    \/ ListZipsFails
    \/ ExtractZip
    \/ CloseZipLog

SpecExtract == InitExtract /\ [][NextExtract]_vars /\ WF_vars(NextExtract)

(***************************************************************************)
(* main, PrepBlocks, MakeUrbanCores and CategorizeCores of procCensus.py   *)
(* as the sequence of toolkit calls they make.  A call is named by its     *)
(* source line.  No function of the file has a try statement: a call that  *)
(* raises ends the run.                                                    *)
(***************************************************************************)
When(cond, calls) == IF cond THEN calls ELSE <<>>

\* the attributes PrepBlocks derives, and the fields the inputs come with
DerivedFields ==
    {"POP", "AREA_SQMI", "DENS_PPSM", "SHP_IDX", "IMPERV_MEAN",
     "IMPERV20_MEAN"}
BlockBaseFields == {"GISJOIN", "Shape_Area", "Shape_Length"}
TabBaseFields == {"GISJOIN", "OBJECTID"}

\* a variant that calculates the density whether or not the field is there
PrepBlocksCallsDensity(bnames, tab, year) ==
    <<53, 56>>
    \o When("POP" \notin tab,
            IF year = 2000 THEN <<59>>
            ELSE IF year = 2010 THEN <<63, 64>> ELSE <<>>)
    \o <<69>>
    \o When("POP" \notin bnames, <<75>>)
    \o When("AREA_SQMI" \notin bnames, <<91, 92>>)
    \o <<97, 99>>
    \o When("SHP_IDX" \notin bnames, <<104, 106>>)
    \o When("IMPERV_MEAN" \notin bnames, <<112, 113, 114, 115>>)
    \o When("IMPERV20_MEAN" \notin bnames, <<122, 124, 125, 126>>)

\* lines 53-126: the calls of PrepBlocks, given the fields it finds
PrepBlocksCalls(bnames, tab, year) ==
    <<53, 56>>
    \o When("POP" \notin tab,
            IF year = 2000 THEN <<59>>
            ELSE IF year = 2010 THEN <<63, 64>> ELSE <<>>)
    \o <<69>>
    \o When("POP" \notin bnames, <<75>>)
    \o When("AREA_SQMI" \notin bnames, <<91, 92>>)
    \o When("DENS_PPSM" \notin bnames, <<97, 99>>)
    \o When("SHP_IDX" \notin bnames, <<104, 106>>)
    \o When("IMPERV_MEAN" \notin bnames, <<112, 113, 114, 115>>)
    \o When("IMPERV20_MEAN" \notin bnames, <<122, 124, 125, 126>>)

\* the calls that only read: arcpy.ListFields
ReadOnlyCalls == {53, 56, 69}

\* lines 164-243: the calls of MakeUrbanCores when the loop body runs n times
RECURSIVE LoopCalls(_)
LoopCalls(n) == IF n = 0 THEN <<>> ELSE <<197, 198, 200>> \o LoopCalls(n - 1)

MakeUrbanCoresCalls(n) ==
    <<164, 165, 189, 190, 192, 193>> \o LoopCalls(n)
    \o <<201, 209, 214, 223, 224, 228, 230, 234, 235, 237, 241, 242, 243>>

\* lines 255-272: the calls of CategorizeCores
CategorizeCoresCalls == <<255, 272>>

\* the fields of in_Blocks after a call has succeeded
BlockFieldsAfter(line, bf) ==
    CASE line = 75 -> bf \cup {"POP"}
      [] line = 91 -> bf \cup {"POLY_AREA"}
      [] line = 92 -> (bf \ {"POLY_AREA"}) \cup {"AREA_SQMI"}
      [] line = 97 -> bf \cup {"DENS_PPSM"}
      [] line = 104 -> bf \cup {"SHP_IDX"}
      [] line = 113 -> bf \cup {"MEAN", "MEDIAN"}
      [] line = 114 -> (bf \ {"MEAN"}) \cup {"IMPERV_MEAN"}
      [] line = 115 -> (bf \ {"MEDIAN"}) \cup {"IMPERV_MEDIAN"}
      [] line = 125 -> bf \cup {"MEAN"}
      [] line = 126 -> (bf \ {"MEAN"}) \cup {"IMPERV20_MEAN"}
      [] OTHER -> bf

\* the fields of in_PopTab after a call has succeeded
TabFieldsAfter(line, tab) ==
    CASE line = 59 -> (tab \ {"FXS001"}) \cup {"POP"}
      [] line = 63 -> tab \cup {"POP"}
      [] OTHER -> tab

\* a call that names a field can only succeed when the field is there
Feasible(line, bf, tab) ==
    CASE line = 59 -> "FXS001" \in tab
      [] line = 64 -> "H7V001" \in tab
      [] line = 75 -> "POP" \in tab
      [] line = 92 -> "POLY_AREA" \in bf
      [] line = 99 -> {"POP", "AREA_SQMI"} \subseteq bf
      [] line \in {114, 126} -> "MEAN" \in bf
      [] line = 115 -> "MEDIAN" \in bf
      [] line = 164 -> "DENS_PPSM" \in bf
      [] line = 189 ->
           {"DENS_PPSM", "IMPERV_MEAN", "SHP_IDX", "IMPERV20_MEAN"}
               \subseteq bf
      [] line = 241 -> {"POP", "AREA_SQMI"} \subseteq bf
      [] OTHER -> TRUE

\* a variant in which main catches what a function raises and goes on
AfterRaiseGoOn(fn) == fn

\* nothing catches the exception: it ends main and the script
AfterRaise(fn) == "raised"

\* a call succeeds
ToolSucceeds ==
    /\ mainPc \in {"make_gdb", "PrepBlocks", "MakeUrbanCores",
                   "CategorizeCores"}
    /\ callsLeft # <<>>
    /\ Feasible(Head(callsLeft), blockFields, tabFields)
    /\ mainTrace' = Append(mainTrace,
          [fn |-> mainPc, line |-> Head(callsLeft), outcome |-> "ok"])
    /\ blockFields' = BlockFieldsAfter(Head(callsLeft), blockFields)
    /\ tabFields' = TabFieldsAfter(Head(callsLeft), tabFields)
    /\ coresWritten' = (coresWritten \/ Head(callsLeft) = 241)
    /\ coresCategorized' = (coresCategorized \/ Head(callsLeft) = 272)
    /\ callsLeft' = Tail(callsLeft)
    /\ UNCHANGED <<mainPc, in_Year, prepRuns, prepBefore, notMain>>

\* a call raises
ToolRaises ==
    /\ mainPc \in {"make_gdb", "PrepBlocks", "MakeUrbanCores",
                   "CategorizeCores"}
    /\ callsLeft # <<>>
    /\ mainTrace' = Append(mainTrace,
          [fn |-> mainPc, line |-> Head(callsLeft), outcome |-> "raised"])
    /\ mainPc' = AfterRaise(mainPc)
    /\ callsLeft' = <<>>
    /\ UNCHANGED <<in_Year, tabFields, blockFields, coresWritten,
                   coresCategorized, prepRuns, prepBefore, notMain>>

\* main, lines 314-316: a function has returned and the next one is called
NextFunction ==
    /\ callsLeft = <<>>
    /\ \/ /\ mainPc = "make_gdb"
          /\ mainPc' = "PrepBlocks"
          /\ callsLeft' = PrepBlocksCalls(blockFields, tabFields, in_Year)
       \/ /\ mainPc = "PrepBlocks"
          /\ mainPc' = "MakeUrbanCores"
          /\ \E n \in 0..MaxPasses : callsLeft' = MakeUrbanCoresCalls(n)
       \/ /\ mainPc = "MakeUrbanCores"
          /\ mainPc' = "CategorizeCores"
          /\ callsLeft' = CategorizeCoresCalls
       \/ /\ mainPc = "CategorizeCores"
          /\ mainPc' = "returned"
          /\ callsLeft' = <<>>
    /\ UNCHANGED <<mainTrace, in_Year, tabFields, blockFields, coresWritten,
                   coresCategorized, prepRuns, prepBefore, notMain>>

\* the tables and feature classes main may be given
MainInputs ==
    /\ tabFields \in {TabBaseFields \cup {"H7V001"},
                      TabBaseFields \cup {"H7V001", "POP"}}
    /\ \E d \in SUBSET DerivedFields : blockFields = BlockBaseFields \cup d
    /\ mainTrace = <<>>
    /\ coresWritten = FALSE
    /\ coresCategorized = FALSE
    /\ prepRuns = 1
    /\ prepBefore = <<>>

\* main, lines 278-307: in_Year = 2010, and make_gdb is the first call
InitMain ==
    /\ mainPc = "make_gdb"
    /\ callsLeft = <<279>>
    /\ in_Year = 2010
    /\ MainInputs
    /\ IdleButMain

NextMain ==
    \/ ToolSucceeds
    \/ ToolRaises
    \/ NextFunction

SpecMain == InitMain /\ [][NextMain]_vars /\ WF_vars(NextMain)

(***************************************************************************)
(* PrepBlocks run on its own, and run again on what it returned.           *)
(***************************************************************************)
\* PrepBlocks has returned in_Blocks and is called with it a second time
PrepBlocksAgain ==
    /\ mainPc = "PrepBlocks"
    /\ callsLeft = <<>>
    /\ prepRuns = 1
    /\ prepRuns' = 2
    /\ prepBefore' = <<blockFields, tabFields>>
    /\ mainTrace' = <<>>
    /\ callsLeft' = PrepBlocksCalls(blockFields, tabFields, in_Year)
    /\ UNCHANGED <<mainPc, in_Year, tabFields, blockFields, coresWritten,
                   coresCategorized, notMain>>

\* the census years, one of them not valid; the population table as
\* downloaded for either year, or with POP already
InitPrep ==
    /\ mainPc = "PrepBlocks"
    /\ in_Year \in {2000, 2010, 2020}
    /\ \E t \in SUBSET {"FXS001", "H7V001", "POP"} :
          tabFields = TabBaseFields \cup t
    /\ \E d \in SUBSET DerivedFields : blockFields = BlockBaseFields \cup d
    /\ callsLeft = PrepBlocksCalls(blockFields, tabFields, in_Year)
    /\ mainTrace = <<>>
    /\ coresWritten = FALSE
    /\ coresCategorized = FALSE
    /\ prepRuns = 1
    /\ prepBefore = <<blockFields, tabFields>>
    /\ IdleButMain

NextPrep ==
    \/ ToolSucceeds
    \/ ToolRaises
    \/ PrepBlocksAgain

SpecPrep == InitPrep /\ [][NextPrep]_vars /\ WF_vars(NextPrep)

(***************************************************************************)
(* polyFlatten: lines 18-68 of procConsLands.py.  A polygon covers a set   *)
(* of locations of a strip; locations next to each other are adjacent.     *)
(***************************************************************************)
Locs == 1..NLocs

\* the values of the field (main flattens on "1".."4" and "1".."5")
FieldValues == {"1", "2", "3"}

\* the maximal runs of adjacent locations in S
Runs(S) ==
    {I \in SUBSET S :
        /\ I # {}
        /\ \A x \in Min(I)..Max(I) : x \in I
        /\ (Min(I) - 1) \notin S
        /\ (Max(I) + 1) \notin S}

\* line 47: MakeFeatureLayer(inPolys, lyr, field = val)
FlattenLayer(val) == {p \in inPolys : p.val = val}

\* line 52: Dissolve_management(lyr, dissFeats, field, "", "SINGLE_PART")
DissolveSinglePart(lyr, val) ==
    {[val |-> val, cells |-> I] : I \in Runs(UNION {p.cells : p \in lyr})}

\* line 66: Update_analysis(inFeats, dissFeats, updatedFeats): the input
\* features with what the update features cover cut out of them, and the
\* update features
UpdateAnalysis(feats, upd) ==
    LET cover == UNION {u.cells : u \in upd}
    IN  {[val |-> f.val, cells |-> f.cells \ cover] :
            f \in {g \in feats : g.cells \ cover # {}}} \cup upd

\* lines 42-67: one execution of the loop body
FlattenValue ==
    /\ flatPc = "loop"
    /\ valPos <= Len(values)
    /\ LET val == values[valPos]
           dissFeats == DissolveSinglePart(FlattenLayer(val), val)
           updatedFeats == UpdateAnalysis(inFeats, dissFeats)
       IN  IF valPos = 1
           THEN /\ inFeats' = dissFeats
                /\ UNCHANGED outPolys
           ELSE /\ inFeats' = updatedFeats
                /\ outPolys' =
                      IF valPos = Len(values)
                      THEN [written |-> TRUE, feats |-> updatedFeats]
                      ELSE outPolys
    /\ valPos' = valPos + 1
    /\ UNCHANGED <<inPolys, values, flatPc, notFlatten>>

\* line 68: the loop is over and outPolys is returned
FlattenReturn ==
    /\ flatPc = "loop"
    /\ valPos > Len(values)
    /\ flatPc' = "returned"
    /\ UNCHANGED <<inPolys, values, valPos, inFeats, outPolys, notFlatten>>

\* the sequences of distinct field values, in any order, of any length
ValueLists ==
    {v \in UNION {[1..n -> FieldValues] : n \in 0..Cardinality(FieldValues)} :
        \A i, j \in DOMAIN v : v[i] = v[j] => i = j}

\* the polygons: a field value and a run of locations
Polygons ==
    {[val |-> v, cells |-> lo..hi] :
        v \in FieldValues, lo \in Locs, hi \in Locs} \ 
    {[val |-> v, cells |-> {}] : v \in FieldValues}

InitFlatten ==
    /\ inPolys \in {P \in SUBSET Polygons : Cardinality(P) <= MaxPolys}
    /\ values \in ValueLists
    /\ valPos = 1
    /\ inFeats = {}
    /\ outPolys = [written |-> FALSE, feats |-> {}]
    /\ flatPc = "loop"
    /\ IdleButFlatten

NextFlatten ==
    \/ FlattenValue
    \/ FlattenReturn

SpecFlatten == InitFlatten /\ [][NextFlatten]_vars /\ WF_vars(NextFlatten)

(***************************************************************************)
(* DEM2FGDB: lines 196-272 of Arc10_3/proc3DEP.py.  A name is a sequence   *)
(* of characters; the extension of an ancillary file is kept as one        *)
(* element.                                                                *)
(***************************************************************************)
\* names of GRID rasters in_dir may hold
GridNames ==
    {<<"g", "r", "d", "a">>, <<"g", "r", "d", "a", "b">>, <<"g", "r", "d", "c">>,
     <<"d", "e", "m">>}

\* the ancillary file that comes with raster gname
AuxFile(gname) == gname \o <<".aux">>

\* a file of in_dir that belongs to no raster
OtherFile == <<"n", "o", "t", "e", "s">>

\* line 220: nedTag = gname[3:]
NedTag(gname) == SubSeq(gname, 4, Len(gname))

\* line 236: nedTag in f
TagIn(tag, f) ==
    \E i \in 0..(Len(f) - Len(tag)) : SubSeq(f, i + 1, i + Len(tag)) = tag

\* the orders in which a set of names may be listed
Orderings(S) ==
    {s \in [1..Cardinality(S) -> S] : \A i, j \in DOMAIN s : s[i] = s[j] => i = j}

\* lines 214-250, CopyRaster succeeds: the record Added, the source raster
\* deleted unless Delete_management raises, and of the items of in_dir whose
\* name holds nedTag every plain file removed unless os.remove raises
\* (os.remove of a directory always raises)
DemImport ==
    /\ demPc = "loop"
    /\ demPos <= Len(rasterList)
    /\ LET gname == rasterList[demPos]
           nedTag == NedTag(gname)
       IN  \E deleted \in BOOLEAN :
           LET rastersLeft == IF deleted THEN dirRasters \ {gname}
                                         ELSE dirRasters
               dfiles == {f \in rastersLeft \cup dirFiles : TagIn(nedTag, f)}
           IN  \E removed \in SUBSET (dfiles \cap dirFiles) :
               /\ gdbRasters' = gdbRasters \cup {gname}
               /\ dirRasters' = rastersLeft
               /\ dirFiles' = dirFiles \ removed
               /\ myProcList' = myProcList
                     \o <<[kind |-> "Added", gname |-> gname]>>
                     \o (IF deleted
                         THEN <<>>
                         ELSE <<[kind |-> "UnableToDelete", gname |-> gname]>>)
                     \o <<[kind |-> IF removed = dfiles
                                    THEN "CleanedUp"
                                    ELSE "UnableToCleanUp",
                           gname |-> gname]>>
    /\ demPos' = demPos + 1
    /\ UNCHANGED <<rasterList, dirAtStart, demLog, demPc, notDEM>>

\* lines 214-222 and 251-262, CopyRaster raises: the record Failed
DemFail ==
    /\ demPc = "loop"
    /\ demPos <= Len(rasterList)
    /\ myProcList' = myProcList
          \o <<[kind |-> "Failed", gname |-> rasterList[demPos]]>>
    /\ demPos' = demPos + 1
    /\ UNCHANGED <<rasterList, dirRasters, dirFiles, dirAtStart, gdbRasters,
                   demLog, demPc, notDEM>>

\* lines 264-272: the records are written to the log file
DemWriteLog ==
    /\ demPc = "loop"
    /\ demPos > Len(rasterList)
    /\ demLog' = myProcList
    /\ demPc' = "done"
    /\ UNCHANGED <<rasterList, dirRasters, dirFiles, dirAtStart, gdbRasters,
                   myProcList, demPos, notDEM>>

InitDEM ==
    /\ dirRasters \in SUBSET GridNames
    /\ rasterList \in Orderings(dirRasters)
    /\ \E withAux \in SUBSET dirRasters, others \in SUBSET {OtherFile} :
          dirFiles = {AuxFile(g) : g \in withAux} \cup others
    /\ dirAtStart = dirFiles
    /\ gdbRasters = {}
    /\ myProcList = <<>>
    /\ demLog = <<>>
    /\ demPos = 1
    /\ demPc = "loop"
    /\ IdleButDEM

NextDEM ==
    \/ DemImport
    \/ DemFail
    \/ DemWriteLog

SpecDEM == InitDEM /\ [][NextDEM]_vars /\ WF_vars(NextDEM)

(***************************************************************************)
(* devChgImp: lines 14-50 of procSamples.py (DevChg, lines 188-243 of      *)
(* Arc10_3/procNLCD.py, computes the same rasters).  The rasters are       *)
(* followed at one cell; limits of remap ranges are in tenths.             *)
(***************************************************************************)
\* Reclassify with a RemapRange and missing_values = "NODATA": the new value
\* of the first range that holds the value, NoData when none does
ReclassifyRange(v, remap) ==
    LET hits == {i \in DOMAIN remap :
                    remap[i][1] <= 10 * v /\ 10 * v <= remap[i][2]}
    IN  IF v = NoData \/ hits = {} THEN NoData ELSE remap[Min(hits)][3]

\* Reclassify with a RemapValue and missing_values = "NODATA"
ReclassifyValue(v, remap) ==
    LET hits == {i \in DOMAIN remap : remap[i][1] = v}
    IN  IF v = NoData \/ hits = {} THEN NoData ELSE remap[Min(hits)][2]

\* a variant of the remap whose ranges meet at develmin
DevRemapAtMin(dm) ==
    <<<<0, 10 * dm, 0>>, <<10 * dm, RangeTop, 1>>>>

\* lines 32, 34: RemapRange([[0, develmin - 0.1, 0], [develmin - 0.1, 100.1, 1]])
DevRemap(dm) ==
    <<<<0, 10 * dm - 1, 0>>, <<10 * dm - 1, RangeTop, 1>>>>

\* line 39: RemapValue([[0, 0], [1, 3], [100, 1], [101, 2]])
ChgRemap == <<<<0, 0>>, <<1, 3>>, <<100, 1>>, <<101, 2>>>>

\* line 38: Raster(r1) + (Raster(r2) * 100), NoData where either is NoData
RasterChange(a, b) ==
    IF a = NoData \/ b = NoData THEN NoData ELSE a + b * 100

\* lines 31-35: the two development status rasters
DevStatus ==
    /\ chgPc = "start"
    /\ r1' = ReclassifyRange(t1, DevRemap(develmin))
    /\ r2' = ReclassifyRange(t2, DevRemap(develmin))
    /\ chgTemps' = {"r1", "r2"}
    /\ chgPc' = "status"
    /\ UNCHANGED <<t1, t2, develmin, keepChg, outChg, notChg>>

\* lines 37-41: the change raster
ImpChange ==
    /\ chgPc = "status"
    /\ outChg' = ReclassifyValue(RasterChange(r1, r2), ChgRemap)
    /\ chgTemps' = chgTemps \cup {"rchg"}
    /\ chgPc' = "changed"
    /\ UNCHANGED <<t1, t2, develmin, keepChg, r1, r2, notChg>>

\* lines 43-50: rchg is deleted, r1 and r2 unless keep_intermediate
CleanUpChg ==
    /\ chgPc = "changed"
    /\ chgTemps' = IF keepChg THEN chgTemps \ {"rchg"} ELSE {}
    /\ chgPc' = "done"
    /\ UNCHANGED <<t1, t2, develmin, keepChg, r1, r2, outChg, notChg>>

\* the values of a cell of an impervious raster
ImpervValues == (0..MaxImperv) \cup {NoData}

\* values of develmin: the default, the least percentage above it, one in
\* the middle and the greatest percentage
DevelMins == {1, 2, 50, MaxImperv}

InitChg ==
    /\ t1 \in ImpervValues
    /\ t2 \in ImpervValues
    /\ develmin \in DevelMins
    /\ keepChg \in BOOLEAN
    /\ r1 = NoData
    /\ r2 = NoData
    /\ outChg = NoData
    /\ chgTemps = {}
    /\ chgPc = "start"
    /\ IdleButChg

NextChg ==
    \/ DevStatus
    \/ ImpChange
    \/ CleanUpChg

SpecChg == InitChg /\ [][NextChg]_vars /\ WF_vars(NextChg)

(***************************************************************************)
(* makeSampMask: lines 53-73 of procSamples.py (lines 42-58 of             *)
(* Arc10_3/procSampleMask.py are the same loop).  The rasters are followed *)
(* at one cell.                                                            *)
(***************************************************************************)
\* the exclusion queries: "Value = k" and "Value > k"
Queries == {[op |-> o, k |-> k] : o \in {"=", ">"}, k \in 0..MaxCellValue}

\* whether the query selects a cell of value v
Matches(query, v) ==
    /\ v # NoData
    /\ IF query.op = "=" THEN v = query.k ELSE v > query.k

\* the environment setting mask: outside of it every output is NoData
Masked(v) == IF maskEnv = "outside" THEN NoData ELSE v

\* line 68: SetNull(ex[0], 1, ex[1])
SetNull(v, false_raster, query) ==
    IF v = NoData \/ Matches(query, v) THEN NoData ELSE false_raster

\* a variant of the statistics that ignores NoData ('DATA')
CellStatisticsData(vals) ==
    LET data == {vals[i] : i \in DOMAIN vals} \ {NoData}
    IN  IF data = {} THEN NoData ELSE Max(data)

\* line 71: CellStatistics(nmList, 'MAXIMUM', 'NODATA')
CellStatistics(vals) ==
    IF \E i \in DOMAIN vals : vals[i] = NoData
    THEN NoData
    ELSE Max({vals[i] : i \in DOMAIN vals})

\* lines 65-70: one execution of the loop body
SetNullNext ==
    /\ sampPc = "loop"
    /\ Len(nmList) < Len(exclList)
    /\ LET ex == exclList[Len(nmList) + 1]
       IN  nmList' = Append(nmList, Masked(SetNull(ex.v, 1, ex.query)))
    /\ UNCHANGED <<exclList, maskEnv, outRast, sampPc, notSamp>>

\* lines 71-73: outRast is saved and the rasters of nmList are deleted
SaveMask ==
    /\ sampPc = "loop"
    /\ Len(nmList) = Len(exclList)
    /\ outRast' = Masked(CellStatistics(nmList))
    /\ nmList' = <<>>
    /\ sampPc' = "done"
    /\ UNCHANGED <<exclList, maskEnv, notSamp>>

InitSamp ==
    /\ exclList \in UNION {[1..n -> [v : (0..MaxCellValue) \cup {NoData},
                                     query : Queries]] : n \in 1..MaxExcl}
    /\ maskEnv \in {"none", "inside", "outside"}
    /\ nmList = <<>>
    /\ outRast = NoData
    /\ sampPc = "loop"
    /\ IdleButSamp

NextSamp ==
    \/ SetNullNext
    \/ SaveMask

SpecSamp == InitSamp /\ [][NextSamp]_vars /\ WF_vars(NextSamp)

(***************************************************************************)
(* finalizeModel: lines 17-73 of finalizeModelProducts.py, for one year,   *)
(* with overwriteOutput False (line 95).  The name of a raster of out_gdb  *)
(* is its base name and whether it carries the prefix 'x_'.                *)
(***************************************************************************)
\* a variant of the classes with the limits left out of their class
VulnClassBelow(value) ==
    IF value < 0 THEN 0
    ELSE IF value < 5 THEN 1
    ELSE IF value < 10 THEN 2
    ELSE IF value < 25 THEN 3
    ELSE IF value < 50 THEN 4
    ELSE IF value < 100 THEN 5
    ELSE 6

\* lines 46-66: u[1], the class of a value
VulnClass(value) ==
    IF value < 0 THEN 0
    ELSE IF value <= 5 THEN 1
    ELSE IF value <= 10 THEN 2
    ELSE IF value <= 25 THEN 3
    ELSE IF value <= 50 THEN 4
    ELSE IF value <= 100 THEN 5
    ELSE 6

\* lines 46-66: u[2], the label of a value
VulnLabel(value) ==
    IF value < 0 THEN "Undevelopable (-1)"
    ELSE IF value <= 5 THEN "Class I (0 - 5: Least Vulnerable)"
    ELSE IF value <= 10 THEN "Class II (6 - 10)"
    ELSE IF value <= 25 THEN "Class III (11 - 25)"
    ELSE IF value <= 50 THEN "Class IV (26 - 50)"
    ELSE IF value <= 100 THEN "Class V (51 - 100: Most Vulnerable)"
    ELSE "Already Developed (101)"

\* lines 43-67: the cursor updates every row of the table
UpdateRows(vals) ==
    [i \in DOMAIN vals |->
        [Value |-> vals[i],
         Vuln_Class |-> VulnClass(vals[i]),
         Vuln_Label |-> VulnLabel(vals[i])]]

\* the names of the rasters finalizeModel writes for one year
ProductNames ==
    [base : {"DevVuln_raw", "DevVuln", "DevVuln_upd"}, archive : BOOLEAN]

Product(base) == [base |-> base, archive |-> FALSE]

\* 'x_' + os.path.basename(rout)
Archived(name) == [name EXCEPT !.archive = TRUE]

\* arcpy.Exists
Exists(gdb, name) == \E r \in gdb : r.name = name

\* a variant that deletes the existing raster
ArchiveDelete(gdb, rout) == {r \in gdb : r.name # rout}

\* lines 23, 39: Rename_management(rout, 'x_' + rout)
ArchiveRename(gdb, rout) ==
    {IF r.name = rout THEN [r EXCEPT !.name = Archived(rout)] ELSE r :
        r \in gdb}

\* lines 22-23, 38-39: Rename_management raises when the new name exists
RenameRaises(gdb, rout) == Exists(gdb, rout) /\ Exists(gdb, Archived(rout))

\* lines 24, 40: ExtractByMask(rin, boundary).save(rout)
SaveRaster(gdb, rout, madeIn) ==
    gdb \cup {[name |-> rout, src |-> rout, made |-> madeIn]}

\* main, lines 100-104, or the script run again: finalizeModel is called
CallFinalize ==
    /\ finPc \in {"ready", "returned", "raised"}
    /\ finRun < MaxRuns
    /\ finRun' = finRun + 1
    /\ updRun' \in BOOLEAN
    /\ finPc' = IF updRun' THEN "final" ELSE "raw"
    /\ UNCHANGED <<gdbProducts, rinValues, vat, notFinal>>

\* lines 19-27: the raw values
FinalizeRaw ==
    /\ finPc = "raw"
    /\ LET rout == Product("DevVuln_raw")
       IN  IF RenameRaises(gdbProducts, rout)
           THEN /\ finPc' = "raised"
                /\ UNCHANGED gdbProducts
           ELSE /\ gdbProducts' =
                      SaveRaster(ArchiveRename(gdbProducts, rout), rout, finRun)
                /\ finPc' = "final"
    /\ UNCHANGED <<rinValues, vat, updRun, finRun, notFinal>>

\* lines 30-73: the final model values and their classes
FinalizeFinal ==
    /\ finPc = "final"
    /\ LET rout == Product(IF updRun THEN "DevVuln_upd" ELSE "DevVuln")
       IN  IF RenameRaises(gdbProducts, rout)
           THEN /\ finPc' = "raised"
                /\ UNCHANGED <<gdbProducts, vat>>
           ELSE /\ gdbProducts' =
                      SaveRaster(ArchiveRename(gdbProducts, rout), rout, finRun)
                /\ vat' = UpdateRows(rinValues)
                /\ finPc' = "returned"
    /\ UNCHANGED <<rinValues, updRun, finRun, notFinal>>

\* the values of a cell of the model raster, some of them below 0
ModelValues == (-2)..HighValue

\* out_gdb as earlier runs may have left it
EarlierProducts ==
    {{[name |-> n, src |-> n, made |-> 0] : n \in N} : N \in SUBSET ProductNames}

InitFinal ==
    /\ gdbProducts \in EarlierProducts
    /\ rinValues \in [1..1 -> ModelValues]
    /\ vat = <<>>
    /\ updRun = FALSE
    /\ finRun = 0
    /\ finPc = "ready"
    /\ IdleButFinal

\* a new out_gdb and a model raster with two values
InitClassify ==
    /\ gdbProducts = {}
    /\ rinValues \in [1..2 -> ModelValues]
    /\ vat = <<>>
    /\ updRun = FALSE
    /\ finRun = 0
    /\ finPc = "ready"
    /\ IdleButFinal

NextFinal ==
    \/ CallFinalize
    \/ FinalizeRaw
    \/ FinalizeFinal

SpecFinal == InitFinal /\ [][NextFinal]_vars /\ WF_vars(NextFinal)

SpecClassify == InitClassify /\ [][NextFinal]_vars /\ WF_vars(NextFinal)

(***************************************************************************)
(* ImpGrowthSpots: lines 195-244 of procNLCD.py.  A raster is named by its *)
(* prefix ("nm" is the output, "edist" the distance raster).               *)
(***************************************************************************)
\* line 240: ls = ['Diff_', 'FDiff_', 'Pot_', 'Regions_', 'Area_']
Intermediates == {"Diff_", "FDiff_", "Pot_", "Regions_", "Area_"}

\* lines 216-220: the difference, its smoothing and its maximum
DiffAndFilter ==
    /\ spotPc = "start"
    /\ wsRasters' = wsRasters \cup {"Diff_", "FDiff_"}
    /\ spotPc' = "check"
    /\ UNCHANGED <<mx, cutoff, keep_intermediate, edist, notSpots>>

\* lines 221-223: no area is above the cutoff, return
NoOutput ==
    /\ spotPc = "check"
    /\ mx < cutoff
    /\ spotPc' = "returned"
    /\ UNCHANGED <<wsRasters, mx, cutoff, keep_intermediate, edist, notSpots>>

\* lines 224-230: potential cells, regions, areas and the output nm
GroupRegions ==
    /\ spotPc = "check"
    /\ ~(mx < cutoff)
    /\ wsRasters' = wsRasters \cup {"Pot_", "Regions_", "Area_", "nm"}
    /\ spotPc' = "grouped"
    /\ UNCHANGED <<mx, cutoff, keep_intermediate, edist, notSpots>>

\* lines 232-237: the distance raster; tmp_ed is saved and deleted
SpotsDistance ==
    /\ spotPc = "grouped"
    /\ wsRasters' = IF edist THEN wsRasters \cup {"edist"} ELSE wsRasters
    /\ spotPc' = "cleanup"
    /\ UNCHANGED <<mx, cutoff, keep_intermediate, edist, notSpots>>

\* lines 239-244: the intermediates are deleted unless keep_intermediate
DeleteIntermediate ==
    /\ spotPc = "cleanup"
    /\ wsRasters' = IF ~keep_intermediate
                    THEN wsRasters \ Intermediates
                    ELSE wsRasters
    /\ spotPc' = "returned"
    /\ UNCHANGED <<mx, cutoff, keep_intermediate, edist, notSpots>>

InitSpots ==
    /\ wsRasters = {}
    /\ mx \in 0..MaxDiff
    /\ cutoff \in 1..MaxCutoff
    /\ keep_intermediate \in BOOLEAN
    /\ edist \in BOOLEAN
    /\ spotPc = "start"
    /\ IdleButSpots

NextSpots ==
    \/ DiffAndFilter
    \/ NoOutput
    \/ GroupRegions
    \/ SpotsDistance
    \/ DeleteIntermediate

SpecSpots == InitSpots /\ [][NextSpots]_vars /\ WF_vars(NextSpots)

(***************************************************************************)
(* BatchStripName: lines 102-119 of Arc10_3/proc3DEP.py.  A path is a      *)
(* sequence of characters, "/" standing for os.sep.                        *)
(***************************************************************************)
\* str.replace(pat, ''): every occurrence of pat, from the left, is left out
RECURSIVE Replace(_, _)
Replace(s, pat) ==
    IF pat = <<>> \/ Len(s) < Len(pat) THEN s
    ELSE IF SubSeq(s, 1, Len(pat)) = pat
         THEN Replace(SubSeq(s, Len(pat) + 1, Len(s)), pat)
         ELSE <<Head(s)>> \o Replace(Tail(s), pat)

\* line 110: oldName = in_dir + os.sep + fileName
OldName(dir, fileName) == dir \o <<"/">> \o fileName

\* lines 111-112: newName = oldName.replace(pre, '').replace(suf, '')
NewName(dir, fileName, p, s) ==
    Replace(Replace(OldName(dir, fileName), p), s)

\* the directory a path lies in: what is before its last separator
RECURSIVE DirName(_)
DirName(path) ==
    IF path = <<>> THEN <<>>
    ELSE IF path[Len(path)] = "/" THEN SubSeq(path, 1, Len(path) - 1)
    ELSE DirName(SubSeq(path, 1, Len(path) - 1))

\* line 114: os.path.exists(newName)
PathExists(path) ==
    \/ path \in fsFiles
    \/ path \in fsDirs
    \/ path # <<>> /\ path[Len(path)] = "/" /\ DirName(path) \in fsDirs

\* lines 109-118: one execution of the loop body; os.rename raises when
\* the directory of newName does not exist
StripNext ==
    /\ stripPc = "loop"
    /\ stripPos <= Len(stripList)
    /\ LET oldName == OldName(in_dir, stripList[stripPos])
           newName == NewName(in_dir, stripList[stripPos], pre, suf)
       IN  IF oldName = newName
           THEN /\ stripLog' = Append(stripLog, "same")
                /\ UNCHANGED <<fsFiles, stripPc>>
           ELSE IF PathExists(newName)
           THEN /\ stripLog' = Append(stripLog, "warned")
                /\ UNCHANGED <<fsFiles, stripPc>>
           ELSE IF DirName(newName) \in fsDirs
           THEN /\ fsFiles' = (fsFiles \ {oldName}) \cup {newName}
                /\ stripLog' = Append(stripLog, "renamed")
                /\ UNCHANGED stripPc
           ELSE /\ stripLog' = Append(stripLog, "raised")
                /\ stripPc' = "raised"
                /\ UNCHANGED fsFiles
    /\ stripPos' = stripPos + 1
    /\ UNCHANGED <<in_dir, pre, suf, fsDirs, stripList, notStrip>>

\* line 119: return
StripReturn ==
    /\ stripPc = "loop"
    /\ stripPos > Len(stripList)
    /\ stripPc' = "returned"
    /\ UNCHANGED <<in_dir, pre, suf, fsFiles, fsDirs, stripList, stripPos,
                   stripLog, notStrip>>

\* names of files in_dir may hold
StripNames ==
    {<<"n", "_", "a", "_", "g">>, <<"n", "_", "a">>, <<"a", "_", "g">>,
     <<"a">>, <<"n", "_", "b", "_", "g">>, <<"n", "_", "_", "g">>}

\* in_dir, one of the paths with the prefix in it, and another directory
StripDirs == {<<"d">>, <<"n", "_", "d">>}

InitStrip ==
    /\ in_dir \in StripDirs
    /\ pre \in {<<>>, <<"n", "_">>}
    /\ suf \in {<<>>, <<"_", "g">>}
    /\ \E others \in SUBSET (StripDirs \ {in_dir}) :
          fsDirs = {in_dir} \cup others
    /\ \E N \in {M \in SUBSET StripNames : Cardinality(M) <= MaxStripFiles} :
          /\ stripList \in Orderings(N)
          /\ \E elsewhere \in SUBSET {OldName(d, <<"a">>) :
                                        d \in fsDirs \ {in_dir}} :
                fsFiles = {OldName(in_dir, f) : f \in N} \cup elsewhere
    /\ stripPos = 1
    /\ stripLog = <<>>
    /\ stripPc = "loop"
    /\ IdleButStrip

NextStrip ==
    \/ StripNext
    \/ StripReturn

SpecStrip == InitStrip /\ [][NextStrip]_vars /\ WF_vars(NextStrip)

(***************************************************************************)
(* polyFlatten called without values: lines 34-38 of procConsLands.py      *)
(* (the same lines of Arc10_3/procConsLands.py).  The values of the field  *)
(* are numbers; as strings they are sequences of digits.                   *)
(***************************************************************************)
\* the numbers the field may hold, of one digit and of two
FieldNumbers == {1, 2, 10, 11}

\* line 36: str(v)
RECURSIVE Str(_)
Str(n) == IF n < 10 THEN <<n>> ELSE Str(n \div 10) \o <<n % 10>>

\* the order of strings: the first digit that differs decides, and a
\* string comes before the strings it begins
RECURSIVE StrLess(_, _)
StrLess(a, b) ==
    IF b = <<>> THEN FALSE
    ELSE IF a = <<>> THEN TRUE
    ELSE IF Head(a) # Head(b) THEN Head(a) < Head(b)
    ELSE StrLess(Tail(a), Tail(b))

\* line 37: list.sort(reverse=True) of a list of distinct strings
SortReverse(S) ==
    CHOOSE s \in Orderings(S) :
        \A i, j \in DOMAIN s : i < j => StrLess(s[j], s[i])

\* line 35: unique_values(inPolys, field)
UniqueValues(polys) == {p.val : p \in polys}

\* the polygons, with a field of digits
NumberedPolygons ==
    {[val |-> Str(n), cells |-> lo..hi] :
        n \in FieldNumbers, lo \in Locs, hi \in Locs} \ 
    {[val |-> Str(n), cells |-> {}] : n \in FieldNumbers}

InitFlattenAll ==
    /\ inPolys \in {P \in SUBSET NumberedPolygons : Cardinality(P) <= MaxPolys}
    /\ values = SortReverse(UniqueValues(inPolys))
    /\ valPos = 1
    /\ inFeats = {}
    /\ outPolys = [written |-> FALSE, feats |-> {}]
    /\ flatPc = "loop"
    /\ IdleButFlatten

SpecFlattenAll == InitFlattenAll /\ [][NextFlatten]_vars /\ WF_vars(NextFlatten)

(***************************************************************************)
(* protMult and protMultBMI: lines 71-109 of procConsLands.py, followed at *)
(* one cell.  Fractions are kept in thousandths.  Whether the division of  *)
(* an integer raster by an integer gives an integer raster depends on the  *)
(* version of the toolkit, so both are allowed.                            *)
(***************************************************************************)
\* a variant of the water raster that is 1 on water too
ConWaterOne(v) == IF v = NoData THEN NoData ELSE 1

\* lines 81, 101: Con(nlcd, 0, 1, 'Value = 11')
ConWater(v) == IF v = NoData THEN NoData ELSE IF v = 11 THEN 0 ELSE 1

\* (raster - 1) / b, in thousandths
DivideMinusOne(v, b, whole) ==
    IF v = NoData THEN NoData
    ELSE IF whole THEN 1000 * ((v - 1) \div b)
    ELSE (1000 * (v - 1)) \div b

\* lines 83, 85: 0.5 * ((bmi - 1) / 5 + (lps - 1) / 4), in thousandths
MultBoth(b, l, whole) ==
    IF b = NoData \/ l = NoData THEN NoData
    ELSE (DivideMinusOne(b, 5, whole) + DivideMinusOne(l, 4, whole)) \div 2

\* lines 103, 105: (bmi - 1) / 5, in thousandths
MultBMI(b, whole) == DivideMinusOne(b, 5, whole)

\* lines 83, 103: water * ...
TimesWater(water, m) ==
    IF water = NoData \/ m = NoData THEN NoData ELSE water * m

\* lines 87, 107: Int(Raster('tmp_mult') * 100 + 0.5), of thousandths
IntPercent(m) == IF m = NoData THEN NoData ELSE (m + 5) \div 10

\* lines 80-82, 100-102: with nlcd, the raster tmp_water
ProtWater ==
    /\ protPc = "start"
    /\ tmp_water' = IF withNlcd THEN ConWater(nlcd) ELSE tmp_water
    /\ protPc' = "mult"
    /\ UNCHANGED <<protFn, bmi, lps, nlcd, wholeDivide, withNlcd, tmp_mult,
                   multOut, notProt>>

\* lines 83-85, 103-105: the raster tmp_mult
ProtMultiplier ==
    /\ protPc = "mult"
    /\ LET m == IF protFn = "protMult"
                THEN MultBoth(bmi, lps, wholeDivide)
                ELSE MultBMI(bmi, wholeDivide)
       IN  tmp_mult' = IF withNlcd THEN TimesWater(tmp_water, m) ELSE m
    /\ protPc' = "int"
    /\ UNCHANGED <<protFn, bmi, lps, nlcd, wholeDivide, withNlcd, tmp_water,
                   multOut, notProt>>

\* lines 86-89, 106-109: outRast is saved and returned
ProtInt ==
    /\ protPc = "int"
    /\ multOut' = IF withNlcd
                  THEN [multOut EXCEPT !.nlcd = IntPercent(tmp_mult)]
                  ELSE [multOut EXCEPT !.plain = IntPercent(tmp_mult)]
    /\ protPc' = "returned"
    /\ UNCHANGED <<protFn, bmi, lps, nlcd, wholeDivide, withNlcd, tmp_water,
                   tmp_mult, notProt>>

\* the function is called again on the same rasters, without nlcd
ProtCallPlain ==
    /\ protPc = "returned"
    /\ withNlcd
    /\ withNlcd' = FALSE
    /\ protPc' = "start"
    /\ UNCHANGED <<protFn, bmi, lps, nlcd, wholeDivide, tmp_water, tmp_mult,
                   multOut, notProt>>

\* BMI codes 1-5 and 6 for none, LPS codes 1-4 and 5 for none (main, lines
\* 156, 164), NLCD classes with open water among them
InitProt ==
    /\ protFn \in {"protMult", "protMultBMI"}
    /\ bmi \in (1..6) \cup {NoData}
    /\ lps \in (1..5) \cup {NoData}
    /\ nlcd \in {11, 21, 41, NoData}
    /\ wholeDivide \in BOOLEAN
    /\ withNlcd = TRUE
    /\ tmp_water = NoData
    /\ tmp_mult = NoData
    /\ multOut = [nlcd |-> NoData, plain |-> NoData]
    /\ protPc = "start"
    /\ IdleButProt

NextProt ==
    \/ ProtWater
    \/ ProtMultiplier
    \/ ProtInt
    \/ ProtCallPlain

SpecProt == InitProt /\ [][NextProt]_vars /\ WF_vars(NextProt)

(***************************************************************************)
(* MakeWeightKernel: lines 19-76 of procNLCD.py (17-68 of the 10.3         *)
(* version, the same statements).  Distances are kept in hundredths of a   *)
(* cell and weights in thousandths; comparisons of distances are made on   *)
(* their squares, which are whole numbers.                                 *)
(***************************************************************************)
RECURSIVE Pow(_, _)
Pow(b, e) == IF e = 0 THEN 1 ELSE b * Pow(b, e - 1)

\* numpy.sqrt, in hundredths
Sqrt100(sq) ==
    CHOOSE r \in 0..1000 : r * r <= sq * 10000 /\ (r + 1) * (r + 1) > sq * 10000

\* num * 10^k / den by long division: the whole part and the remainder
RECURSIVE Shift(_, _, _, _)
Shift(q, r, den, k) ==
    IF k = 0 THEN <<q, r>>
    ELSE Shift(q * 10 + (r * 10) \div den, (r * 10) % den, den, k - 1)

\* numpy.around of num / den to k decimals, in units of 10^-k: to the
\* nearest, halves to the even one
Around(num, den, k) ==
    LET qr == Shift(num \div den, num % den, den, k)
    IN  IF 2 * qr[2] > den THEN qr[1] + 1
        ELSE IF 2 * qr[2] = den THEN qr[1] + (qr[1] % 2)
        ELSE qr[1]

\* lines 48, 50: diam, dims
Diam(n) == 2 * n + 1

\* lines 53-55: the values of ycoords and xcoords
Coords(n) == 0..(2 * n)

\* lines 56-57: midY, midX
Mid(n) == (2 * n) \div 2

\* line 58: the square of d
DistSq(y, x, n) == (x - Mid(n)) * (x - Mid(n)) + (y - Mid(n)) * (y - Mid(n))

\* a variant that takes the radius itself for maxDist
BeyondRadius(sq, n) == 4 * sq > (2 * n) * (2 * n)

\* lines 49, 59: d > maxDist, with maxDist = nCells + 0.5
Beyond(sq, n) == 4 * sq > (2 * n + 1) * (2 * n + 1)

\* line 59: d <= annDist
Within(sq, a) == sq <= a * a

\* line 59: s / (d - annDist) ** gamma, in thousandths
Decay(sq, s, a, g) == (s * 1000 * Pow(100, g)) \div Pow(Sqrt100(sq) - 100 * a, g)

\* line 59: one cell of weight
WeightAt(y, x, n, s, a, g, cv) ==
    IF Beyond(DistSq(y, x, n), n) THEN 0
    ELSE IF Within(DistSq(y, x, n), a) THEN cv * s * 1000
    ELSE Decay(DistSq(y, x, n), s, a, g)

\* line 60: numpy.sum(weight)
RECURSIVE SumOver(_, _)
SumOver(f, D) ==
    IF D = {} THEN 0
    ELSE LET p == CHOOSE q \in D : TRUE
         IN  f[p] + SumOver(f, D \ {p})

\* lines 60-64: one cell of normWt, rounded; 0 / 0 is nan
NormAt(w, total, s, decimals) ==
    IF total = 0 THEN "nan"
    ELSE Around(s * w, total, decimals)

\* lines 48-59: the arrays
KernelWeights ==
    /\ kernPc = "start"
    /\ weight' = [p \in Coords(nCells) \X Coords(nCells) |->
                    WeightAt(p[1], p[2], nCells, scale, annDist, gamma, centerVal)]
    /\ kernPc' = "norm"
    /\ UNCHANGED <<nCells, gamma, scale, rounding, ysnInt, centerVal, annDist,
                   normWt, outfile, notKern>>

\* lines 60-64: normWt
KernelNormalize ==
    /\ kernPc = "norm"
    /\ LET total == SumOver(weight, DOMAIN weight)
           decimals == IF ysnInt = 1 THEN 0 ELSE rounding
       IN  normWt' = [p \in DOMAIN weight |-> NormAt(weight[p], total, scale, decimals)]
    /\ kernPc' = "open"
    /\ UNCHANGED <<nCells, gamma, scale, rounding, ysnInt, centerVal, annDist,
                   weight, outfile, notKern>>

\* lines 67-69: the first line, str(dims[1]) + ' ' + str(dims[0])
KernelFirstLine ==
    /\ kernPc = "open"
    /\ outfile' = << <<Diam(nCells), Diam(nCells)>> >>
    /\ kernPc' = "rows"
    /\ UNCHANGED <<nCells, gamma, scale, rounding, ysnInt, centerVal, annDist,
                   weight, normWt, notKern>>

\* lines 70-73: one row of normWt
KernelRow ==
    /\ kernPc = "rows"
    /\ Len(outfile) < Diam(nCells) + 1
    /\ LET y == Len(outfile) - 1
       IN  outfile' = Append(outfile, [i \in 1..Diam(nCells) |-> normWt[<<y, i - 1>>]])
    /\ UNCHANGED <<nCells, gamma, scale, rounding, ysnInt, centerVal, annDist,
                   weight, normWt, kernPc, notKern>>

\* lines 74-76: close, return
KernelReturn ==
    /\ kernPc = "rows"
    /\ Len(outfile) = Diam(nCells) + 1
    /\ kernPc' = "returned"
    /\ UNCHANGED <<nCells, gamma, scale, rounding, ysnInt, centerVal, annDist,
                   weight, normWt, outfile, notKern>>

InitKern ==
    /\ nCells \in 1..MaxRadius
    /\ gamma \in {1, 2}
    /\ scale \in {10, 100}
    /\ rounding \in 0..MaxDecimals
    /\ ysnInt \in {0, 1}
    /\ centerVal \in {0, 1}
    /\ annDist \in 0..MaxAnnDist
    /\ weight = <<>>
    /\ normWt = <<>>
    /\ outfile = <<>>
    /\ kernPc = "start"
    /\ IdleButKern

NextKern ==
    \/ KernelWeights
    \/ KernelNormalize
    \/ KernelFirstLine
    \/ KernelRow
    \/ KernelReturn

SpecKern == InitKern /\ [][NextKern]_vars /\ WF_vars(NextKern)

(***************************************************************************)
(* SpecBoth: the expansion loop of MakeUrbanCores (lines 185-202 of        *)
(* procCensus.py) and then that of MakeUrbanCores2 (lines 255-269 of       *)
(* Arc10_3/procCensus.py), on the same coreBlocks, the same in_Blocks and  *)
(* the same adjacency.  coreBlocks is any set of blocks that satisfy the   *)
(* expansion where-clause.                                                 *)
(***************************************************************************)
\* blocks that satisfy the clause by density, by imperviousness, and not
BothProfiles ==
    { [DENS_PPSM |-> 1000, Shape_Area |-> 3600, IMPERV_MEAN |-> 0,
       SHP_IDX |-> 0, IMPERV20_MEAN |-> 0, POP |-> 4],
      [DENS_PPSM |-> 499, Shape_Area |-> 3600, IMPERV_MEAN |-> 20,
       SHP_IDX |-> 185, IMPERV20_MEAN |-> 0, POP |-> 2],
      [DENS_PPSM |-> 0, Shape_Area |-> 3600, IMPERV_MEAN |-> 19,
       SHP_IDX |-> 185, IMPERV20_MEAN |-> 32, POP |-> 0] }

\* the loop of MakeUrbanCores2 is run on the coreBlocks the loop of
\* MakeUrbanCores was run on
ExpandAgain ==
    /\ pc = "grown"
    /\ pc2 = "idle"
    /\ pc2' = "select"
    /\ UNCHANGED <<selTertiary, c, passes, lastAdded, coreBlocks,
                   expandCores, notCores2>>

InitBoth ==
    /\ blocks = GrowUnits
    /\ attr \in [GrowUnits -> BothProfiles]
    /\ \E E \in SUBSET UnorderedPairs(GrowUnits) : touch = Symmetric(E)
    /\ coreBlocks \in SUBSET lyr_SecondaryBlocks
    /\ pc = "select"
    /\ pc2 = "idle"
    /\ selTertiary = {}
    /\ c = 0
    /\ selSecondary = {}
    /\ c0 = 0
    /\ c1 = 0
    /\ passes = 0
    /\ lastAdded = 0
    /\ expandCores = {}
    /\ geom = <<>>
    /\ dissCores = {}
    /\ fillCores = {}
    /\ grpCores = {}
    /\ tmpBlocks = {}
    /\ out_Cores = {}
    /\ run = 1
    /\ firstCores = {}
    /\ IdleCat
    /\ IdleDownload
    /\ IdleExtract
    /\ IdleLater

NextBoth ==
    \/ InitSelection
    \/ ExpandPass
    \/ CopyExpand
    \/ ExpandAgain
    \/ InitTertiary
    \/ ExpandPass2
    \/ FinishExpand2

SpecBoth == InitBoth /\ [][NextBoth]_vars /\ WF_vars(NextBoth)

(***************************************************************************)
(* The claims' own reading of the two predicates (spec section 4.1).       *)
(***************************************************************************)
ClaimSeed(f) == f.DENS_PPSM >= 1000 /\ f.Shape_Area >= 3600

ClaimExpansion(f) ==
    \/ f.DENS_PPSM >= 500
    \/ (f.IMPERV_MEAN >= 20 /\ f.SHP_IDX >= 185)
    \/ (f.IMPERV20_MEAN >= 33 /\ f.SHP_IDX >= 185)

\* chains of at most as many blocks as there are, all satisfying the expansion
\* predicate, starting at a seed, consecutive blocks touching
EligibleChains ==
    {ch \in UNION {[1..n -> blocks] : n \in 1..Cardinality(blocks)} :
        /\ ClaimSeed(attr[ch[1]])
        /\ \A i \in DOMAIN ch : ClaimExpansion(attr[ch[i]])
        /\ \A i \in DOMAIN ch : i > 1 => <<ch[i-1], ch[i]>> \in touch}

ChainReachable == {ch[Len(ch)] : ch \in EligibleChains}

EligibleNonSeed ==
    {b \in blocks : ClaimExpansion(attr[b]) /\ ~ClaimSeed(attr[b])}

(***************************************************************************)
(* C1: when the expansion loop has exited, the selected set copied to      *)
(* expandCores is exactly the set of blocks that satisfy the expansion     *)
(* predicate and are reachable from a seed block through a chain of        *)
(* touching blocks that all satisfy the expansion predicate.               *)
(***************************************************************************)
C1_GrownIsChainReachable ==
    pc = "grown" => expandCores = ChainReachable

\* a run that needed two passes and absorbed two non-seed blocks
C1_Witness ==
    /\ pc = "grown"
    /\ passes >= 2
    /\ Cardinality(expandCores \ coreBlocks) >= 2

(***************************************************************************)
(* C5: the expansion loop, in either version of the script, terminates; it *)
(* continues exactly while the latest selection step added blocks, so it   *)
(* exits exactly when a step adds none, and the loop body runs at most as  *)
(* many times as there are eligible non-seed blocks.                       *)
(***************************************************************************)
C5_LoopTerminates ==
    /\ [](pc = "loop" => (ENABLED CopyExpand <=> lastAdded = 0))
    /\ [](pc2 = "loop" => (ENABLED FinishExpand2 <=> lastAdded = 0))
    /\ []((pc = "grown" \/ pc2 = "grown") => lastAdded = 0)
    /\ [](passes <= Cardinality(EligibleNonSeed))
    /\ <>(pc = "grown" \/ pc2 = "grown")

\* the bound on the passes is attained on a chain of two non-seed blocks
C5_Witness ==
    /\ pc = "grown"
    /\ passes = Cardinality(EligibleNonSeed)
    /\ passes = 2

(***************************************************************************)
(* Vocabulary of the claims about the output of MakeUrbanCores.            *)
(***************************************************************************)
\* the blocks aggregated into out_Cores
OutputBlocks == UNION {k.blks : k \in out_Cores}

\* the CORE_IDs block b carries in tmpBlocks
CoreIdsOf(b) == {r.CORE_ID : r \in {q \in tmpBlocks : q.blk = b}}

\* block b lies in a gap of the dissolved cores that is smaller than one
\* square mile: it was not selected, and a selected block surrounds it
InFilledGap(b) ==
    /\ b \notin expandCores
    /\ \E h \in expandCores : InsideOf(b, h)
    /\ attr[b].Shape_Area < 2589988

\* the gap between two parts of fillCores, in millimetres
GapMM(P, Q) ==
    LET pl == Min({Lo(b) : b \in P})
        ph == Max({Hi(b) : b \in P})
        ql == Min({Lo(b) : b \in Q})
        qh == Max({Hi(b) : b \in Q})
    IN  1000 * Max({0, ql - ph, pl - qh})

\* the parts of fillCores linked to those of S by chains whose consecutive
\* parts are at most d millimetres apart
RECURSIVE ChainLinked(_, _)
ChainLinked(S, d) ==
    LET T == S \cup {Q \in fillCores : \E P \in S : GapMM(P, Q) <= d}
    IN  IF T = S THEN S ELSE ChainLinked(T, d)

\* all blocks of the two parts carry one and the same CORE_ID
SameCore(P, Q) ==
    \E id \in {r.CORE_ID : r \in tmpBlocks} :
        \A b \in P \cup Q : CoreIdsOf(b) = {id}

(***************************************************************************)
(* C2 (as stated): every block in the final output satisfies the           *)
(* expansion predicate or is a seed block.                                 *)
(***************************************************************************)
C2_Original ==
    pc = "done" =>
        \A b \in OutputBlocks :
            ClaimExpansion(attr[b]) \/ ClaimSeed(attr[b])

(***************************************************************************)
(* C2 (amended): every block in the final output satisfies the expansion   *)
(* predicate, is a seed block, or lies in a gap of the dissolved cores     *)
(* smaller than one square mile, which EliminatePolygonPart filled.        *)
(***************************************************************************)
C2_OutputEligibleOrInFilledGap ==
    pc = "done" =>
        \A b \in OutputBlocks :
            ClaimExpansion(attr[b]) \/ ClaimSeed(attr[b]) \/ InFilledGap(b)

\* a block that fails both predicates is in the output
C2_Witness ==
    /\ pc = "done"
    /\ \E b \in OutputBlocks :
          ~ClaimExpansion(attr[b]) /\ ~ClaimSeed(attr[b])

(***************************************************************************)
(* C3: after the spatial join and the dissolve, every block carries at     *)
(* most one CORE_ID, and the block sets of the cores of out_Cores are      *)
(* pairwise disjoint.                                                      *)
(***************************************************************************)
C3_CoresDisjoint ==
    pc = "done" =>
        /\ \A b \in blocks : Cardinality(CoreIdsOf(b)) <= 1
        /\ \A k, d \in out_Cores : k # d => k.blks \cap d.blks = {}

\* a re-run that ends with two cores
C3_Witness ==
    /\ pc = "done"
    /\ run = 2
    /\ Cardinality(out_Cores) >= 2

C7_TaggedAndSummed ==
    pc = "done" =>
        /\ \A b \in blocks :
              (\E P \in fillCores : b \in P) =>
                  \E g \in grpCores :
                      /\ g.lo <= 1000 * Lo(b)
                      /\ 1000 * Hi(b) <= g.hi
                      /\ CoreIdsOf(b) = {g.CORE_ID}
        /\ {k.CORE_ID : k \in out_Cores} = {r.CORE_ID : r \in tmpBlocks}
        /\ \A k \in out_Cores :
              LET T == {b \in blocks : k.CORE_ID \in CoreIdsOf(b)}
              IN  /\ k.blks = T
                  /\ k.POP = SetSum(T, [b \in T |-> attr[b].POP])
                  /\ k.AREA_SQMI = SetSum(T, [b \in T |-> attr[b].AREA_SQMI])

\* a core of three blocks, one of them in a filled gap
C7_Witness ==
    /\ pc = "done"
    /\ \E k \in out_Cores :
          /\ Cardinality(k.blks) >= 3
          /\ \E b \in k.blks : InFilledGap(b)

TableClasses(pop, area) ==
    {k \in 0..5 :
        \/ k = 0 /\ (pop < 1000 \/ (pop < 2500 /\ area < 1000))
        \/ k = 1 /\ 1000 <= pop /\ pop < 2500 /\ area >= 1000
        \/ k = 2 /\ 2500 <= pop /\ pop < 25000
        \/ k = 3 /\ 25000 <= pop /\ pop < 250000
        \/ k = 4 /\ 250000 <= pop /\ pop < 2500000
        \/ k = 5 /\ pop >= 2500000}

(***************************************************************************)
(* C4: catCores gives every population and area exactly one class in      *)
(* 0..5, the one whose row of the six-way table applies.                   *)
(***************************************************************************)
C4_CatCoresMatchesTable ==
    catPc = "done" =>
        /\ in_Cores.CORE_TYPE \in 0..5
        /\ TableClasses(in_Cores.POP, in_Cores.AREA_SQMI)
              = {in_Cores.CORE_TYPE}

\* population 2500 on less than a square mile is class 2
C4_Witness ==
    /\ catPc = "done"
    /\ in_Cores.POP = 2500
    /\ in_Cores.AREA_SQMI < 1000
    /\ in_Cores.CORE_TYPE = 2

(***************************************************************************)
(* C9: BatchDownload attempts every file of the list, in order, whatever   *)
(* happened to the files before it; the log gets exactly one result line   *)
(* per file, in input order, saying what happened to that file; and a file *)
(* reported as 404 is never retrieved.                                     *)
(***************************************************************************)
C9_ExpectedMsg(o) ==
    CASE o = "404" -> "File does not exist"
      [] o = "ok" -> "Successfully downloaded"
      [] o \in {"openFails", "retrieveFails"} -> "Failed to download"

C9_BatchDownloadIsolatesItems ==
    /\ dlPc = "loop" =>
          /\ fileIdx <= Len(fileList) + 1
          /\ opened = SubSeq(fileList, 1, fileIdx - 1)
          /\ Len(procList) = fileIdx - 1
    /\ dlPc = "done" =>
          /\ opened = fileList
          /\ Len(outcomes) = Len(fileList)
          /\ Len(Log) = Len(fileList) + 2
          /\ \A k \in 1..Len(fileList) :
                /\ Log[k + 1].file = fileList[k]
                /\ Log[k + 1].msg = C9_ExpectedMsg(outcomes[k])
                /\ Log[k + 1].msg = "File does not exist" => k \notin retrieved

\* a failure, a 404 and a success, in that order
C9_Witness ==
    /\ dlPc = "done"
    /\ Len(fileList) >= 3
    /\ outcomes[1] = "openFails"
    /\ outcomes[2] = "404"
    /\ outcomes[3] = "ok"
    /\ Log[4].msg = "Successfully downloaded"

(***************************************************************************)
(* C10: BatchExtractZips runs its loop body for every entry of the         *)
(* directory whose name contains '.zip', in order, whatever happened to    *)
(* the entries before it; an archive that fails to extract and an entry    *)
(* that is no zip file each get a warning line in the log; and the log is  *)
(* closed when the function returns, also when listing the directory       *)
(* raised.                                                                 *)
(***************************************************************************)
C10_IsZipNamed(e) == \E k \in DOMAIN e.name : e.name[k] = ".zip"

C10_ZipNamed == SelectSeq(ZipDir, C10_IsZipNamed)

C10_BatchExtractIsolatesItems ==
    /\ zipPc = "done" => ~logOpen
    /\ zipPc = "loop" =>
          /\ zipIdx <= Len(C10_ZipNamed) + 1
          /\ visited = [k \in 1..(zipIdx - 1) |-> C10_ZipNamed[k].name]
    /\ (zipPc = "done" /\ listed) =>
          /\ visited = [k \in 1..Len(C10_ZipNamed) |-> C10_ZipNamed[k].name]
          /\ Len(log) = Len(C10_ZipNamed)
          /\ \A k \in 1..Len(C10_ZipNamed) :
                LET e == C10_ZipNamed[k]
                IN  /\ log[k].file = e.name
                    /\ e.content = "zip" =>
                          log[k].msg = "extracted" /\ e.name \in OutDir
                    /\ e.content = "badzip" =>
                          log[k].msg = "Warning: Failed to extract"
                    /\ e.content = "data" =>
                          log[k].msg = "Warning: not a valid zip file"

\* an archive that fails, an entry that is no zip file, then a good archive
C10_Witness ==
    /\ zipPc = "done"
    /\ listed
    /\ ~logOpen
    /\ Len(zfiles) >= 3
    /\ zfiles[1].content = "badzip"
    /\ zfiles[2].content = "data"
    /\ zfiles[3].content = "zip"
    /\ zfiles[3].name \in OutDir

(***************************************************************************)
(* C11: the run of main is fail-fast.  A call that raises is the last call *)
(* of the run (no retry, no later step), the functions run in the order    *)
(* PrepBlocks, MakeUrbanCores, CategorizeCores, and out_Cores is written,  *)
(* and categorized, only if every call before succeeded.                   *)
(***************************************************************************)
C11_PipelineOrder(fn) ==
    CASE fn = "make_gdb" -> 0
      [] fn = "PrepBlocks" -> 1
      [] fn = "MakeUrbanCores" -> 2
      [] fn = "CategorizeCores" -> 3

C11_FailFast ==
    /\ \A i \in 1..(Len(mainTrace) - 1) : mainTrace[i].outcome = "ok"
    /\ \A i \in 1..(Len(mainTrace) - 1) :
          C11_PipelineOrder(mainTrace[i].fn)
              <= C11_PipelineOrder(mainTrace[i + 1].fn)
    /\ (mainTrace # <<>> /\ mainTrace[Len(mainTrace)].outcome = "raised")
          <=> mainPc = "raised"
    /\ mainPc = "raised" => callsLeft = <<>>
    /\ coresWritten =>
          \E i \in 1..Len(mainTrace) :
              /\ mainTrace[i] =
                    [fn |-> "MakeUrbanCores", line |-> 241, outcome |-> "ok"]
              /\ \A j \in 1..i : mainTrace[j].outcome = "ok"
              /\ \E j \in 1..i : mainTrace[j].fn = "PrepBlocks"
    /\ coresCategorized =>
          /\ coresWritten
          /\ \A i \in 1..Len(mainTrace) : mainTrace[i].outcome = "ok"
    /\ mainPc = "returned" => coresWritten /\ coresCategorized

\* out_Cores was written, then a call of CategorizeCores raised
C11_Witness ==
    /\ mainPc = "raised"
    /\ coresWritten
    /\ ~coresCategorized
    /\ mainTrace[Len(mainTrace)].fn = "CategorizeCores"

(***************************************************************************)
(* Vocabulary of the claim about polyFlatten: the positions in values of   *)
(* the values of the input polygons that cover a location.                 *)
(***************************************************************************)
C12_Covering(loc) ==
    {i \in DOMAIN values :
        \E p \in inPolys : p.val = values[i] /\ loc \in p.cells}

C12_Flattened ==
    /\ outPolys.written
    /\ \A loc \in Locs :
          C12_Covering(loc) # {} =>
              \E f \in outPolys.feats :
                  /\ loc \in f.cells
                  /\ f.val = values[Max(C12_Covering(loc))]
    /\ \A f, g \in outPolys.feats : f # g => f.cells \cap g.cells = {}

(***************************************************************************)
(* C12 (as stated): when polyFlatten has returned, at every location       *)
(* covered by input polygons whose values are in the list the output       *)
(* carries the value latest in the list among those covering it, and the   *)
(* output polygons do not overlap.                                         *)
(***************************************************************************)
C12_Original == flatPc = "returned" => C12_Flattened

\* the same for lists of two values or more
C12_FlattenedWhenSeveralValues ==
    (flatPc = "returned" /\ Len(values) >= 2) => C12_Flattened

(***************************************************************************)
(* Vocabulary of the claim about DEM2FGDB: the rasters whose import        *)
(* failed, and the main records of a raster in the log.                    *)
(***************************************************************************)
C13_Failed ==
    {g \in GridNames :
        \E i \in DOMAIN myProcList :
            myProcList[i] = [kind |-> "Failed", gname |-> g]}

C13_MainRecords(g) ==
    {i \in DOMAIN demLog :
        /\ demLog[i].gname = g
        /\ demLog[i].kind \in {"Added", "Failed"}}

C13_SafeDeletion ==
    /\ \A g \in C13_Failed :
          /\ g \in dirRasters
          /\ AuxFile(g) \in dirAtStart => AuxFile(g) \in dirFiles
    /\ \A i \in DOMAIN rasterList :
          rasterList[i] \notin dirRasters => rasterList[i] \in gdbRasters
    /\ demPc = "done" =>
          \A i \in DOMAIN rasterList :
              Cardinality(C13_MainRecords(rasterList[i])) = 1

(***************************************************************************)
(* C13 (as stated): a raster whose CopyRaster fails keeps its source       *)
(* raster and its files, a source raster is deleted only after its import, *)
(* and when DEM2FGDB is done the log holds exactly one Added or Failed     *)
(* record for every raster of the list.                                    *)
(***************************************************************************)
C13_Original == C13_SafeDeletion

\* the tag of no raster occurs in the name of a file of another raster
C13_TagsApart ==
    \A g, h \in dirRasters \cup gdbRasters :
        g # h => ~TagIn(NedTag(g), AuxFile(h))

\* the same when the tags of the rasters are apart
C13_SafeWhenTagsApart == C13_TagsApart => C13_SafeDeletion

(***************************************************************************)
(* Vocabulary of the claim about devChgImp: a cell is developed when its   *)
(* imperviousness is develmin or more; the code of a pair of statuses.     *)
(***************************************************************************)
C14_Developed(v) == v >= develmin

C14_Code(dev1, dev2) ==
    IF dev1 THEN (IF dev2 THEN 2 ELSE 3) ELSE (IF dev2 THEN 1 ELSE 0)

(***************************************************************************)
(* C14: once the change raster is written, a cell with data in both        *)
(* periods carries the one code of its development status: 0 developed in  *)
(* neither period, 1 undeveloped then developed, 2 developed in both,      *)
(* 3 developed then undeveloped, developed meaning imperviousness at or    *)
(* above develmin.                                                         *)
(***************************************************************************)
C14_ChangeCode ==
    (chgPc \in {"changed", "done"} /\ t1 # NoData /\ t2 # NoData) =>
        outChg = C14_Code(C14_Developed(t1), C14_Developed(t2))

C14_Witness ==
    /\ chgPc = "done"
    /\ t1 = develmin
    /\ t2 = develmin - 1
    /\ develmin > 1
    /\ outChg = 3

(***************************************************************************)
(* Vocabulary of the claim about makeSampMask: the cell has data in every  *)
(* raster of exclList; some exclusion query matches the cell.              *)
(***************************************************************************)
C15_DataEverywhere == \A i \in DOMAIN exclList : exclList[i].v # NoData

C15_Excluded ==
    \E i \in DOMAIN exclList : Matches(exclList[i].query, exclList[i].v)

(***************************************************************************)
(* C15 (as stated): the mask is 1 at a cell exactly when the cell has data *)
(* in every raster of exclList and no exclusion query matches it, and a    *)
(* cell matched by some exclusion query is NoData.                         *)
(***************************************************************************)
C15_Original ==
    sampPc = "done" =>
        /\ outRast = 1 <=> (C15_DataEverywhere /\ ~C15_Excluded)
        /\ C15_Excluded => outRast = NoData

(***************************************************************************)
(* C15 (amended): at a cell that the mask given to makeSampMask does not   *)
(* leave out, the output is 1 exactly when the cell has data in every      *)
(* raster of exclList and no exclusion query matches it; everywhere else,  *)
(* and so at every cell matched by some exclusion query, it is NoData.     *)
(***************************************************************************)
C15_MaskOfSamples ==
    sampPc = "done" =>
        /\ outRast = 1 <=>
              (maskEnv # "outside" /\ C15_DataEverywhere /\ ~C15_Excluded)
        /\ outRast # 1 => outRast = NoData
        /\ C15_Excluded => outRast = NoData

C15_Witness ==
    /\ sampPc = "done"
    /\ Len(exclList) = 2
    /\ C15_DataEverywhere
    /\ ~C15_Excluded
    /\ maskEnv = "outside"
    /\ outRast = NoData

(***************************************************************************)
(* The classes of the claim about finalizeModel, read as a table.          *)
(***************************************************************************)
C16_Table(value) ==
    CASE value < 0 -> 0
      [] value \in 0..5 -> 1
      [] value \in 6..10 -> 2
      [] value \in 11..25 -> 3
      [] value \in 26..50 -> 4
      [] value \in 51..100 -> 5
      [] value > 100 -> 6

(***************************************************************************)
(* C16: every row of the table of the final raster has the one class of    *)
(* its value (below 0: 0, 0..5: 1, 6..10: 2, 11..25: 3, 26..50: 4,         *)
(* 51..100: 5, above 100: 6), and a greater value never has a smaller      *)
(* class.                                                                  *)
(***************************************************************************)
C16_ClassOfValue ==
    /\ \A i \in DOMAIN vat : vat[i].Vuln_Class = C16_Table(vat[i].Value)
    /\ \A i, j \in DOMAIN vat :
          vat[i].Value <= vat[j].Value => vat[i].Vuln_Class <= vat[j].Vuln_Class

C16_Witness ==
    /\ finPc = "returned"
    /\ Len(vat) = 2
    /\ vat[1].Value = 5
    /\ vat[2].Value = 6
    /\ vat[1].Vuln_Class = 1
    /\ vat[2].Vuln_Class = 2

(***************************************************************************)
(* C17: no step of finalizeModel loses a raster of out_gdb: every raster   *)
(* is still there after the step, under its name or, when a new raster was *)
(* saved under that name, under the name with the prefix 'x_'.             *)
(***************************************************************************)
C17_NeverLoses ==
    [][\A r \in gdbProducts :
          \E q \in gdbProducts' :
              /\ q.src = r.src
              /\ q.made = r.made
              /\ \/ q.name = r.name
                 \/ /\ q.name = Archived(r.name)
                    /\ \E n \in gdbProducts' :
                          n.name = r.name /\ n.made = finRun]_vars

C17_Witness ==
    /\ finPc = "raised"
    /\ finRun = 2
    /\ \E r, q \in gdbProducts :
          /\ r.name = Product("DevVuln")
          /\ r.made = 1
          /\ q.name = Archived(r.name)
          /\ q.src = r.name
          /\ q.made = 0

(***************************************************************************)
(* Vocabulary of the claim about ImpGrowthSpots: the intermediates the     *)
(* call has created when it returns.                                       *)
(***************************************************************************)
C18_Created ==
    IF mx < cutoff THEN {"Diff_", "FDiff_"} ELSE Intermediates

C18_Cleaned ==
    IF keep_intermediate
    THEN C18_Created \subseteq wsRasters
    ELSE wsRasters \cap Intermediates = {}

(***************************************************************************)
(* C18 (as stated): when ImpGrowthSpots has returned, by whichever return  *)
(* statement, none of its intermediates is left if keep_intermediate is    *)
(* False, and every intermediate it created is there if it is True.        *)
(***************************************************************************)
C18_Original == spotPc = "returned" => C18_Cleaned

\* the same for the return at the end of the function
C18_CleanedAtEnd == (spotPc = "returned" /\ ~(mx < cutoff)) => C18_Cleaned

(***************************************************************************)
(* Vocabulary of the claim about PrepBlocks: the calls that add, join or   *)
(* calculate a derived attribute.                                          *)
(***************************************************************************)
C19_FieldCalls(f) ==
    CASE f = "POP" -> {75}
      [] f = "AREA_SQMI" -> {91, 92}
      [] f = "DENS_PPSM" -> {97, 99}
      [] f = "SHP_IDX" -> {104, 106}
      [] f = "IMPERV_MEAN" -> {112, 113, 114, 115}
      [] f = "IMPERV20_MEAN" -> {122, 124, 125, 126}

C19_TraceLines == {mainTrace[i].line : i \in DOMAIN mainTrace}

(***************************************************************************)
(* C19: a run of PrepBlocks makes no call for a derived attribute that was *)
(* a field of the blocks when the run began, and the second run, on the    *)
(* output of the first, only lists fields and leaves the fields of the     *)
(* blocks and of the population table as they were.                        *)
(***************************************************************************)
C19_SecondRunChangesNothing ==
    /\ \A f \in DerivedFields :
          f \in prepBefore[1] => C19_TraceLines \cap C19_FieldCalls(f) = {}
    /\ prepRuns = 2 =>
          /\ C19_TraceLines \subseteq ReadOnlyCalls
          /\ <<blockFields, tabFields>> = prepBefore

C19_Witness ==
    /\ prepRuns = 2
    /\ mainPc = "PrepBlocks"
    /\ callsLeft = <<>>
    /\ Len(mainTrace) = 3
    /\ in_Year = 2010
    /\ "IMPERV_MEDIAN" \in blockFields
    /\ DerivedFields \subseteq blockFields

(***************************************************************************)
(* Vocabulary of the claim about BatchStripName: the files of in_dir, and  *)
(* the name a listed file is to have once stripped.                        *)
(***************************************************************************)
C20_FilesOfDir == {f \in fsFiles : DirName(f) = in_dir}

C20_Stripped(i) ==
    in_dir \o <<"/">> \o Replace(Replace(stripList[i], pre), suf)

C20_NothingLost ==
    /\ Cardinality(C20_FilesOfDir) = Len(stripList)
    /\ \A i \in DOMAIN stripLog :
          /\ stripLog[i] = "renamed" =>
                /\ C20_Stripped(i) # OldName(in_dir, stripList[i])
                /\ C20_Stripped(i) \in fsFiles
          /\ stripLog[i] # "renamed" => OldName(in_dir, stripList[i]) \in fsFiles

(***************************************************************************)
(* C20 (as stated): BatchStripName removes and overwrites no file: the     *)
(* directory holds as many files as before, a renamed file is there under  *)
(* its stripped name, which differs from its old name, and every other    *)
(* file is there under its old name.                                       *)
(***************************************************************************)
C20_Original == C20_NothingLost

\* neither pre nor suf occurs in in_dir
C20_DirKeepsName == Replace(Replace(in_dir, pre), suf) = in_dir

\* the same when in_dir holds neither pre nor suf
C20_NothingLostInPlainDir == C20_DirKeepsName => C20_NothingLost

(***************************************************************************)
(* Vocabulary of the claim about polyFlatten without values: the number a  *)
(* string of digits stands for, and the least number of the polygons that  *)
(* cover a location.                                                       *)
(***************************************************************************)
C21_Number(d) == CHOOSE n \in FieldNumbers : Str(n) = d

C21_NumbersAt(loc) ==
    {C21_Number(p.val) : p \in {q \in inPolys : loc \in q.cells}}

C21_SmallestWins ==
    (flatPc = "returned" /\ outPolys.written) =>
        \A loc \in Locs :
            C21_NumbersAt(loc) # {} =>
                \E f \in outPolys.feats :
                    /\ loc \in f.cells
                    /\ C21_Number(f.val) = Min(C21_NumbersAt(loc))

(***************************************************************************)
(* C21 (as stated): without a values list, wherever polygons overlap the   *)
(* output that polyFlatten has written carries the smallest value among    *)
(* them, also when the values differ in their number of digits.            *)
(***************************************************************************)
C21_Original == C21_SmallestWins

\* the values of the field all have the same number of digits
C21_SameDigits ==
    \A p, q \in inPolys : Len(p.val) = Len(q.val)

\* the same when the values all have the same number of digits
C21_SmallestWinsSameDigits == C21_SameDigits => C21_SmallestWins

(***************************************************************************)
(* C22: once the call with nlcd and the call without it have returned, a   *)
(* cell with BMI and LPS codes has multiplier 0 in the first if its NLCD   *)
(* value is 11 (open water), and the same multiplier in both if its NLCD   *)
(* value is another one.                                                   *)
(***************************************************************************)
C22_WaterIsZero ==
    (protPc = "returned" /\ ~withNlcd /\ bmi # NoData /\ lps # NoData
        /\ nlcd # NoData) =>
        IF nlcd = 11
        THEN multOut.nlcd = 0
        ELSE multOut.nlcd = multOut.plain /\ multOut.plain # NoData

C22_Witness ==
    /\ protPc = "returned"
    /\ ~withNlcd
    /\ nlcd = 11
    /\ bmi = 3
    /\ lps = 2
    /\ multOut.nlcd = 0
    /\ multOut.plain > 0

\* the file has the first line and one line of 2 * nCells + 1 values for each
\* row of the kernel
C23_Shape ==
    /\ Len(outfile) = Diam(nCells) + 1
    /\ outfile[1] = <<Diam(nCells), Diam(nCells)>>
    /\ \A i \in 2..Len(outfile) : Len(outfile[i]) = Diam(nCells)

C23_Cells == Coords(nCells) \X Coords(nCells)

C23_Sq(p) == DistSq(p[1], p[2], nCells)

C23_Outside(p) == 4 * C23_Sq(p) > (2 * nCells + 1) * (2 * nCells + 1)

C23_Inner(p) == C23_Sq(p) <= annDist * annDist

\* cells outside the neighbourhood have weight 0
C23_ZeroOutside == \A p \in C23_Cells : C23_Outside(p) => weight[p] = 0

\* cells that are neither outside nor inner have a positive weight that does
\* not increase with distance
C23_Decays ==
    \A p \in C23_Cells :
        (~C23_Outside(p) /\ ~C23_Inner(p)) =>
            /\ weight[p] > 0
            /\ \A q \in C23_Cells :
                   (~C23_Outside(q) /\ C23_Sq(q) >= C23_Sq(p)) =>
                       weight[q] <= weight[p]

\* the kernel and the lines written are the same after reflection about the
\* centre row and about the centre column
C23_Reflected ==
    \A p \in C23_Cells :
        /\ weight[p] = weight[<<2 * nCells - p[1], p[2]>>]
        /\ weight[p] = weight[<<p[1], 2 * nCells - p[2]>>]
        /\ outfile[p[1] + 2][p[2] + 1] = outfile[2 * nCells - p[1] + 2][p[2] + 1]
        /\ outfile[p[1] + 2][p[2] + 1] = outfile[p[1] + 2][2 * nCells - p[2] + 1]

C24_SameUnits ==
    (pc = "grown" /\ pc2 = "grown") => selSecondary = expandCores

C24_Witness ==
    /\ pc = "grown"
    /\ pc2 = "grown"
    /\ passes >= 1
    /\ selSecondary = expandCores
    /\ coreBlocks # {}
    /\ expandCores # coreBlocks
    /\ expandCores # blocks

=============================================================================
